---- MODULE Spec2Model ----
(***************************************************************************)
(* Server functions of the portfolio application (src/data/investments.ts  *)
(* as carried in src/vite.config.ts:26-1492), the identity layer           *)
(* (src/src/lib/auth.ts), the shared database client (src/unnamed/part_002)*)
(* and the storage-side rules of src/db/security-and-snapshots.sql.        *)
(*                                                                         *)
(* Every `await client.query(...)` is one step of a request: requests of   *)
(* one process interleave at these points and share the module-level       *)
(* client, hence its session parameter app.user_id and its transaction.    *)
(***************************************************************************)
EXTENDS Integers, Sequences, FiniteSets, TLC

\* ------------------------------------------------------------------ bounds
MaxRequests == 3
MaxRaceRequests == 2
MaxSlots == 2
MaxInvestmentId == 1
MaxDistributionId == 1
MaxPortfolioId == 3
MaxUserId == 3
\* one request at a time, long enough to save, change data, save a later day and
\* save the first day again
MaxSnapshotRequests == 4
\* calendar days a snapshot request can name
MaxDate == 2
\* calls and user creations of a run of initializeSchema on its own
MaxSchemaRequests == 4
\* statements that fail for a reason outside the database
MaxFaults == 1
\* calls of updateUserStockPrices in a run of the price refresh on its own
MaxStockRequests == 2
\* requests, and last investment and distribution id, in a run of the handlers
\* that store and report values
MaxValueRequests == 3
MaxValueInvestmentId == 2
MaxValueDistributionId == 2

\* ------------------------------------------------------- input enumerations
Reqs == 1..MaxSlots
Modes == {"development", "production", "test"}
DevUserIdValues == {"", "2"}
Amounts == {-5, 10, 20}
PortfolioNames == {"My Portfolio", "Growth"}
\* category_ids / tag_ids of a payload: none, one category, one tag
LabelPayloads == {<< <<>>, <<>> >>, << <<1>>, <<>> >>, << <<>>, <<1>> >>}
PortfolioIds == 1..MaxPortfolioId
InvestmentIds == 1..MaxInvestmentId
NoUser == 0

\* ---------------------------------------------------------------- messages
ErrAuth == "Clerk authentication not yet implemented"
ErrInvestmentNotFound == "Investment not found"
ErrInvestmentUpdatePermission ==
  "Investment not found or you do not have permission to update it"
ErrInvestmentDeletePermission ==
  "Investment not found or you do not have permission to delete it"
ErrPortfolioNotFound == "Portfolio not found"
ErrPortfolioUpdate == "Portfolio not found or update failed"
ErrPortfolioHasInvestments == "Cannot delete portfolio with existing investments"
ErrNoFields == "No fields to update"
ErrNotInProduction == "saveAllSnapshots is not available in production"
ErrStorage == "storage error"
ErrCrossTenant == "Cross-tenant association not allowed"
Ok == "ok"

VARIABLES
  mode,               \* process.env.NODE_ENV
  devUserId,          \* import.meta.env.VITE_DEV_USER_ID ("" when absent)
  secured,            \* db/security-and-snapshots.sql has been run on the database
  rls,                \* its row-visibility policies apply to the application's role
  db,                 \* the tables
  seq,                \* the SERIAL sequences
  sessionUser,        \* app.user_id of the shared client (NoUser when unset)
  tx,                 \* transaction state of the shared client
  txSaved,            \* the tables as of the BEGIN of the open transaction
  schemaInitialized,  \* module-level flag of investments.ts
  req,                \* the requests in flight
  slots,              \* requests the process handles at a time
  budget,             \* requests the run may still accept
  days,               \* calendar days requests can name
  build,              \* the version of data/investments.ts that runs
  pg,                 \* the database as initializeSchema meets it
  pgAtCall,           \* pg when each caller entered initializeSchema
  boot,               \* the callers of initializeSchema
  faults,             \* statement failures still to come
  maxIds,             \* last id the investments and distributions sequences may give
  kinds               \* type and stock fields a createInvestment payload may carry

vars == <<mode, devUserId, secured, rls, db, seq, sessionUser, tx, txSaved,
          schemaInitialized, req, slots, budget, days,
          build, pg, pgAtCall, boot, faults, maxIds, kinds>>

\* ------------------------------------------------------------ pure helpers
\* SUM(amount) over a set of rows
RECURSIVE SumAmount(_)
SumAmount(S) ==
  IF S = {} THEN 0
  ELSE LET x == CHOOSE y \in S : TRUE IN x.amount + SumAmount(S \ {x})

\* SUM(CASE WHEN i.investment_type = t AND i.current_stock_price IS NOT NULL AND
\* i.stock_quantity IS NOT NULL THEN i.stock_quantity * i.current_stock_price
\* ELSE i.amount END) over a set of investments; 0 stands for NULL. t is
\* 'stock' in vite.config.ts:1049-1055 and 1127-1133, 'stocks' in
\* security-and-snapshots.sql:364-371 and 398-405
RECURSIVE SumValue(_, _)
SumValue(S, t) ==
  IF S = {} THEN 0
  ELSE LET i == CHOOSE y \in S : TRUE
       IN (IF i.investment_type = t /\ i.current_stock_price # 0 /\ i.stock_quantity # 0
           THEN i.stock_quantity * i.current_stock_price
           ELSE i.amount) + SumValue(S \ {i}, t)

SeqToSet(s) == {s[i] : i \in 1..Len(s)}

\* parseInt(devUserId, 10) on the values the environment can hold
parseInt(s) ==
  CASE s = "0" -> 0 [] s = "1" -> 1 [] s = "2" -> 2 [] s = "3" -> 3
    [] s = "4" -> 4 [] s = "5" -> 5 [] s = "6" -> 6 [] s = "7" -> 7
    [] s = "8" -> 8 [] s = "9" -> 9

\* the resolution without its NODE_ENV test: the development fallback everywhere
getCurrentUserIdWrong(m, dev) == IF dev # "" THEN parseInt(dev) ELSE 1
\* src/src/lib/auth.ts:9-19; a result of NoUser stands for the thrown error
getCurrentUserId(m, dev) ==
  IF m = "development"
  THEN IF dev # "" THEN parseInt(dev) ELSE 1
  ELSE NoUser

\* ------------------------------------------------------------ the database
EmptyTables ==
  [users |-> {}, portfolios |-> {}, investments |-> {}, distributions |-> {},
   categories |-> {}, tags |-> {}, investment_categories |-> {},
   investment_tags |-> {}, portfolio_daily_snapshots |-> {},
   user_daily_snapshots |-> {}]

Portfolio(id, u, n) == [id |-> id, user_id |-> u, name |-> n]
\* a row of investments; "" and 0 stand for NULL in the stock columns
Investment(id, p, a) ==
  [id |-> id, portfolio_id |-> p, amount |-> a, investment_type |-> "manual",
   stock_symbol |-> "", stock_quantity |-> 0, current_stock_price |-> 0,
   stock_price_updated_at |-> 0]
Distribution(id, i, a) == [id |-> id, investment_id |-> i, amount |-> a]
Label(id, u) == [id |-> id, user_id |-> u]

\* owner of a portfolio / investment in tables d (NoUser when the row is absent)
PortfolioOwner(d, pid) ==
  IF \E p \in d.portfolios : p.id = pid
  THEN (CHOOSE p \in d.portfolios : p.id = pid).user_id
  ELSE NoUser
InvestmentOwner(d, iid) ==
  IF \E i \in d.investments : i.id = iid
  THEN PortfolioOwner(d, (CHOOSE i \in d.investments : i.id = iid).portfolio_id)
  ELSE NoUser
LabelOwner(S, id) ==
  IF \E c \in S : c.id = id THEN (CHOOSE c \in S : c.id = id).user_id ELSE NoUser

\* ------------------------------------------------- row-visibility policies
\* src/db/security-and-snapshots.sql:109-283: USING / WITH CHECK of each table
\* for app.user_id = s; without the policies every row passes
PolicyPortfolio(d, s, p) == rls => (s # NoUser /\ p.user_id = s)
PolicyInvestment(d, s, i) == rls => (s # NoUser /\ PortfolioOwner(d, i.portfolio_id) = s)
PolicyDistribution(d, s, x) == rls => (s # NoUser /\ InvestmentOwner(d, x.investment_id) = s)
PolicyLabel(d, s, c) == rls => (s # NoUser /\ c.user_id = s)
PolicyAssocUsing(d, s, a) == rls => (s # NoUser /\ InvestmentOwner(d, a.investment_id) = s)
PolicyAssocCheck(d, s, a, labels, lid) ==
  rls => /\ s # NoUser
         /\ InvestmentOwner(d, a.investment_id) = s
         /\ LabelOwner(labels, lid) = s
PolicyPortfolioSnapshot(d, s, x) == rls => (s # NoUser /\ PortfolioOwner(d, x.portfolio_id) = s)
PolicyUserSnapshot(d, s, x) == rls => (s # NoUser /\ x.user_id = s)

VisPortfolios(d, s) == {p \in d.portfolios : PolicyPortfolio(d, s, p)}
VisInvestments(d, s) == {i \in d.investments : PolicyInvestment(d, s, i)}
VisDistributions(d, s) == {x \in d.distributions : PolicyDistribution(d, s, x)}
VisCategories(d, s) == {c \in d.categories : PolicyLabel(d, s, c)}
VisTags(d, s) == {c \in d.tags : PolicyLabel(d, s, c)}
VisInvCategories(d, s) == {a \in d.investment_categories : PolicyAssocUsing(d, s, a)}
VisInvTags(d, s) == {a \in d.investment_tags : PolicyAssocUsing(d, s, a)}
VisPortfolioSnapshots(d, s) ==
  {x \in d.portfolio_daily_snapshots : PolicyPortfolioSnapshot(d, s, x)}
VisUserSnapshots(d, s) == {x \in d.user_daily_snapshots : PolicyUserSnapshot(d, s, x)}

\* ON DELETE CASCADE of the foreign keys (vite.config.ts:141,160,170-179;
\* security-and-snapshots.sql:46): removing portfolios P removes what hangs below
CascadePortfolios(d, P) ==
  LET goneInv == {i \in d.investments : i.portfolio_id \in P}
      goneIds == {i.id : i \in goneInv}
  IN [d EXCEPT
        !.portfolios = {p \in @ : p.id \notin P},
        !.investments = @ \ goneInv,
        !.distributions = {x \in @ : x.investment_id \notin goneIds},
        !.investment_categories = {a \in @ : a.investment_id \notin goneIds},
        !.investment_tags = {a \in @ : a.investment_id \notin goneIds},
        !.portfolio_daily_snapshots = {x \in @ : x.portfolio_id \notin P}]

\* ----------------------------------------------------------------- requests
IdleReq ==
  [op |-> "", pc |-> "idle", userId |-> NoUser, bound |-> FALSE,
   pid |-> 0, iid |-> 0, newPid |-> 0, amount |-> 0, hasAmount |-> FALSE,
   cats |-> <<>>, tags |-> <<>>, idx |-> 0, name |-> "", date |-> 0,
   list |-> <<>>, saved |-> 0, err |-> "", outcome |-> "",
   seen |-> {}, wrote |-> {}, stmtAs |-> {}, unbound |-> FALSE,
   price |-> 0, errors |-> <<>>, failed |-> {},
   quotes |-> <<>>, limited |-> FALSE, late |-> FALSE, fresh |-> FALSE,
   stock |-> [investment_type |-> "manual", stock_symbol |-> "",
              stock_quantity |-> 0, current_stock_price |-> 0],
   result |-> {},
   pre |-> EmptyTables]

\* operations that call initializeSchema() after binding the identity
SchemaOps == {"createInvestment", "getPortfolios", "getPortfolioWithInvestments",
              "createPortfolio", "updateUserStockPrices"}

\* first statement of each handler after the common prelude
Entry(o) ==
  CASE o = "getInvestmentByPortfolio" -> "gibp_select"
    [] o = "getInvestmentWithDetails" -> "giwd_select"
    [] o = "createInvestment" -> "ci_begin"
    [] o = "updateInvestment" -> "ui_begin"
    [] o = "updateInvestmentByPortfolio" -> "uibp_begin"
    [] o = "deleteInvestment" -> "di_begin"
    [] o = "createDistribution" -> "cd_insert"
    [] o = "getPortfolios" -> "gp_select"
    [] o = "getPortfolioWithInvestments" -> "gpwi_portfolio"
    [] o = "createPortfolio" -> "cp_insert"
    [] o = "updatePortfolio" -> "up_update"
    [] o = "deletePortfolio" -> "dp_count"
    [] o = "getPortfolioSnapshots" -> "gps_select"
    [] o = "getUserSnapshots" -> "gus_select"
    [] o = "savePortfolioSnapshot" -> "sps_save"
    [] o = "saveUserSnapshot" -> "sus_save"
    [] o = "updateUserStockPrices" -> "usp_select"

\* a statement reaching the shared client while its transaction is aborted fails
Aborted == tx = "failed"
\* a failed statement aborts the transaction that is open on the client
TxAfterError == IF tx = "open" THEN "failed" ELSE tx

\* bookkeeping of a tenant-scoped statement issued by request q: the identity in
\* effect on the client, and whether q had bound one itself
Note(q) == [q EXCEPT !.stmtAs = @ \cup {sessionUser},
                     !.unbound = @ \/ ~q.bound]
Throw(q, msg) == [q EXCEPT !.pc = "done", !.outcome = msg]
Return(q) == [q EXCEPT !.pc = "done", !.outcome = Ok]
Goto(q, l) == [q EXCEPT !.pc = l]
\* inside try { ... } catch { ROLLBACK; throw }
Catch(q, msg) == [q EXCEPT !.pc = "rollback", !.err = msg]

Session == <<sessionUser, tx, txSaved>>
Env == <<mode, devUserId, secured, rls, slots, days, build, pg, pgAtCall, boot, faults,
         maxIds, kinds>>
\* the date field of a snapshot payload
Dates == 1..days

\* a request arrives: it is tracked in the first free slot
Arrives(r) ==
  /\ r <= slots
  /\ req[r].pc = "idle"
  /\ \A o \in Reqs : o < r => req[o].pc # "idle"
  /\ budget > 0

\* vite.config.ts: first lines of every authenticated handler
\*   const userId = await getCurrentUserId(); const client = await getClient()
Accept(r, o, args) ==
  /\ Arrives(r)
  /\ budget' = budget - 1
  /\ LET uid == getCurrentUserId(mode, devUserId)
         q == [args EXCEPT !.op = o, !.userId = uid, !.pre = db]
     IN req' = [req EXCEPT ![r] = IF uid = NoUser THEN Throw(q, ErrAuth)
                                  ELSE Goto(q, "bind")]
  /\ UNCHANGED <<Env, db, seq, Session, schemaInitialized>>

\* src/unnamed/part_002:26-36
setSessionUser(r) ==
  /\ req[r].pc = "bind"
  /\ IF Aborted
     THEN /\ req' = [req EXCEPT ![r] = Throw(@, ErrStorage)]
          /\ UNCHANGED sessionUser
     ELSE /\ sessionUser' = req[r].userId
          /\ req' = [req EXCEPT ![r] =
                       Goto([@ EXCEPT !.bound = TRUE],
                            IF @.op \in SchemaOps THEN "schema" ELSE Entry(@.op))]
  /\ UNCHANGED <<Env, db, seq, tx, txSaved, schemaInitialized, budget>>

\* vite.config.ts:54-81; createFreshSchema (84-230) finds every table present
\* and creates nothing
initializeSchema(r) ==
  /\ req[r].pc = "schema"
  /\ IF mode = "production" \/ schemaInitialized
     THEN /\ req' = [req EXCEPT ![r] = Goto(@, Entry(@.op))]
          /\ UNCHANGED schemaInitialized
     ELSE IF Aborted
          THEN /\ req' = [req EXCEPT ![r] = Throw(@, ErrStorage)]
               /\ UNCHANGED schemaInitialized
          ELSE /\ schemaInitialized' = TRUE
               /\ req' = [req EXCEPT ![r] = Goto(@, Entry(@.op))]
  /\ UNCHANGED <<Env, db, seq, Session, budget>>

\* the response leaves the process
Respond(r) ==
  /\ req[r].pc = "done"
  /\ req' = [req EXCEPT ![r] = IdleReq]
  /\ UNCHANGED <<Env, db, seq, Session, schemaInitialized, budget>>

\* await client.query('BEGIN') of the transactional handlers
\* (vite.config.ts:406,486,605,725)
BeginStmt(r, from, to) ==
  /\ req[r].pc = from
  /\ IF Aborted
     THEN /\ req' = [req EXCEPT ![r] = Catch(@, ErrStorage)]
          /\ UNCHANGED <<tx, txSaved>>
     ELSE /\ req' = [req EXCEPT ![r] = Goto(@, to)]
          /\ tx' = "open"
          /\ txSaved' = IF tx = "idle" THEN db ELSE txSaved
  /\ UNCHANGED <<Env, db, seq, sessionUser, schemaInitialized, budget>>

\* await client.query('COMMIT') (vite.config.ts:465,584,704,761)
Commit(r) ==
  /\ req[r].pc = "commit"
  /\ req' = [req EXCEPT ![r] = Return(@)]
  /\ tx' = "idle"
  /\ db' = IF Aborted THEN txSaved ELSE db
  /\ txSaved' = EmptyTables
  /\ UNCHANGED <<Env, seq, sessionUser, schemaInitialized, budget>>

\* catch (error) { await client.query('ROLLBACK'); throw error }
\* (vite.config.ts:468-471,587-590,707-710,764-767)
Rollback(r) ==
  /\ req[r].pc = "rollback"
  /\ req' = [req EXCEPT ![r] =
               Throw([@ EXCEPT !.wrote = IF tx = "idle" THEN @ ELSE {}], @.err)]
  /\ tx' = "idle"
  /\ db' = IF tx = "idle" THEN db ELSE txSaved
  /\ txSaved' = EmptyTables
  /\ UNCHANGED <<Env, seq, sessionUser, schemaInitialized, budget>>

\* ---------------------------------------------------- investment handlers
\* what follows the main statement of create/update: the association loops
AfterMain(q) ==
  IF Len(q.cats) > 0 THEN "cat" ELSE IF Len(q.tags) > 0 THEN "tag" ELSE "commit"

\* security-and-snapshots.sql:290-347: the BEFORE INSERT trigger, which reads
\* through the policies as the inserting session does
enforce_same_user(d, s, iid, labels, lid) ==
  LET inv_user == IF \E i \in VisInvestments(d, s) : i.id = iid
                  THEN InvestmentOwner(d, iid) ELSE NoUser
      lab_user == LabelOwner(labels, lid)
  IN inv_user # NoUser /\ lab_user # NoUser /\ inv_user = lab_user

\* vite.config.ts:264-290
getInvestmentByPortfolio(r) ==
  \E pid \in PortfolioIds, iid \in InvestmentIds :
    Accept(r, "getInvestmentByPortfolio", [IdleReq EXCEPT !.pid = pid, !.iid = iid])

getInvestmentByPortfolio_select(r) ==
  /\ req[r].pc = "gibp_select"
  /\ LET q == Note(req[r])
         rows == {i \in VisInvestments(db, sessionUser) :
                    i.id = q.iid /\ i.portfolio_id = q.pid}
     IN /\ req' = [req EXCEPT ![r] =
                     IF Aborted THEN Throw(q, ErrStorage)
                     ELSE IF rows = {} THEN Throw(q, ErrInvestmentNotFound)
                     ELSE Goto([q EXCEPT !.seen = @ \cup {InvestmentOwner(db, q.iid)}],
                               "details")]
  /\ UNCHANGED <<Env, db, seq, Session, schemaInitialized, budget>>

\* vite.config.ts:328-355
getInvestmentWithDetails(r) ==
  \E iid \in InvestmentIds :
    Accept(r, "getInvestmentWithDetails", [IdleReq EXCEPT !.iid = iid])

getInvestmentWithDetails_select(r) ==
  /\ req[r].pc = "giwd_select"
  /\ LET q == Note(req[r])
         rows == {i \in VisInvestments(db, sessionUser) :
                    /\ i.id = q.iid
                    /\ \E p \in VisPortfolios(db, sessionUser) :
                          p.id = i.portfolio_id /\ p.user_id = q.userId}
     IN /\ req' = [req EXCEPT ![r] =
                     IF Aborted THEN Throw(q, ErrStorage)
                     ELSE IF rows = {} THEN Throw(q, ErrInvestmentNotFound)
                     ELSE Goto([q EXCEPT !.seen = @ \cup {InvestmentOwner(db, q.iid)}],
                               "details")]
  /\ UNCHANGED <<Env, db, seq, Session, schemaInitialized, budget>>

\* vite.config.ts:292-325 and 357-390: categories, tags and distributions of
\* the investment, selected by investment id alone
selectDetails(r) ==
  /\ req[r].pc = "details"
  /\ LET q == Note(req[r])
         cs == {c \in VisCategories(db, sessionUser) :
                  \E a \in VisInvCategories(db, sessionUser) :
                     a.investment_id = q.iid /\ a.label_id = c.id}
         ts == {c \in VisTags(db, sessionUser) :
                  \E a \in VisInvTags(db, sessionUser) :
                     a.investment_id = q.iid /\ a.label_id = c.id}
         ds == {x \in VisDistributions(db, sessionUser) : x.investment_id = q.iid}
         owners == {c.user_id : c \in cs \cup ts}
                     \cup {InvestmentOwner(db, x.investment_id) : x \in ds}
     IN req' = [req EXCEPT ![r] =
                  IF Aborted THEN Throw(q, ErrStorage)
                  ELSE Return([q EXCEPT !.seen = @ \cup owners])]
  /\ UNCHANGED <<Env, db, seq, Session, schemaInitialized, budget>>

\* vite.config.ts:393-472
createInvestment(r) ==
  /\ seq.investments <= maxIds.investments
  /\ \E pid \in PortfolioIds, a \in Amounts, l \in LabelPayloads, k \in kinds :
       Accept(r, "createInvestment",
              [IdleReq EXCEPT !.pid = pid, !.amount = a, !.cats = l[1], !.tags = l[2],
                              !.stock = k])

createInvestment_begin(r) == BeginStmt(r, "ci_begin", "ci_insert")

createInvestment_insert(r) ==
  /\ req[r].pc = "ci_insert"
  /\ LET q == Note(req[r])
         row == [Investment(seq.investments, q.pid, q.amount) EXCEPT
                   !.investment_type = q.stock.investment_type,
                   !.stock_symbol = q.stock.stock_symbol,
                   !.stock_quantity = q.stock.stock_quantity,
                   !.current_stock_price = q.stock.current_stock_price,
                   !.stock_price_updated_at =
                      IF q.stock.current_stock_price # 0 THEN days ELSE 0]
         ok == /\ PortfolioOwner(db, q.pid) # NoUser
               /\ q.amount >= 0
               /\ PolicyInvestment(db, sessionUser, row)
     IN IF Aborted \/ ~ok
        THEN /\ req' = [req EXCEPT ![r] = Catch(q, ErrStorage)]
             /\ tx' = TxAfterError
             /\ UNCHANGED db
        ELSE /\ db' = [db EXCEPT !.investments = @ \cup {row}]
             /\ req' = [req EXCEPT ![r] =
                          Goto([q EXCEPT !.iid = row.id, !.idx = 1,
                                         !.wrote = @ \cup {PortfolioOwner(db, q.pid)}],
                               AfterMain(q))]
             /\ UNCHANGED tx
  /\ seq' = IF Aborted THEN seq ELSE [seq EXCEPT !.investments = @ + 1]
  /\ UNCHANGED <<Env, sessionUser, txSaved, schemaInitialized, budget>>

\* vite.config.ts:447-454 (and 566-573, 686-693)
insertInvestmentCategory(r) ==
  /\ req[r].pc = "cat"
  /\ LET q == Note(req[r])
         cid == q.cats[q.idx]
         row == [investment_id |-> q.iid, label_id |-> cid]
         fk == InvestmentOwner(db, q.iid) # NoUser /\ LabelOwner(db.categories, cid) # NoUser
         trg == secured => enforce_same_user(db, sessionUser, q.iid,
                                             VisCategories(db, sessionUser), cid)
         ok == /\ fk
               /\ row \notin db.investment_categories
               /\ PolicyAssocCheck(db, sessionUser, row, db.categories, cid)
     IN IF Aborted \/ ~trg \/ ~ok
        THEN /\ req' = [req EXCEPT ![r] =
                          Catch(q, IF ~Aborted /\ ~trg THEN ErrCrossTenant ELSE ErrStorage)]
             /\ tx' = TxAfterError
             /\ UNCHANGED db
        ELSE /\ db' = [db EXCEPT !.investment_categories = @ \cup {row}]
             /\ req' = [req EXCEPT ![r] =
                          IF q.idx < Len(q.cats) THEN [q EXCEPT !.idx = @ + 1]
                          ELSE Goto([q EXCEPT !.idx = 1], IF Len(q.tags) > 0 THEN "tag" ELSE "commit")]
             /\ UNCHANGED tx
  /\ UNCHANGED <<Env, seq, sessionUser, txSaved, schemaInitialized, budget>>

\* vite.config.ts:456-463 (and 575-582, 695-702)
insertInvestmentTag(r) ==
  /\ req[r].pc = "tag"
  /\ LET q == Note(req[r])
         tid == q.tags[q.idx]
         row == [investment_id |-> q.iid, label_id |-> tid]
         fk == InvestmentOwner(db, q.iid) # NoUser /\ LabelOwner(db.tags, tid) # NoUser
         trg == secured => enforce_same_user(db, sessionUser, q.iid,
                                             VisTags(db, sessionUser), tid)
         ok == /\ fk
               /\ row \notin db.investment_tags
               /\ PolicyAssocCheck(db, sessionUser, row, db.tags, tid)
     IN IF Aborted \/ ~trg \/ ~ok
        THEN /\ req' = [req EXCEPT ![r] =
                          Catch(q, IF ~Aborted /\ ~trg THEN ErrCrossTenant ELSE ErrStorage)]
             /\ tx' = TxAfterError
             /\ UNCHANGED db
        ELSE /\ db' = [db EXCEPT !.investment_tags = @ \cup {row}]
             /\ req' = [req EXCEPT ![r] =
                          IF q.idx < Len(q.tags) THEN [q EXCEPT !.idx = @ + 1]
                          ELSE Goto(q, "commit")]
             /\ UNCHANGED tx
  /\ UNCHANGED <<Env, seq, sessionUser, txSaved, schemaInitialized, budget>>

\* vite.config.ts:475-591
updateInvestment(r) ==
  \E iid \in InvestmentIds, a \in Amounts, np \in {0} \cup PortfolioIds,
     l \in LabelPayloads :
    Accept(r, "updateInvestment",
           [IdleReq EXCEPT !.iid = iid, !.amount = a, !.newPid = np,
                           !.cats = l[1], !.tags = l[2], !.idx = 1])

updateInvestment_begin(r) == BeginStmt(r, "ui_begin", "ui_update")

\* UPDATE investments i SET ... FROM portfolios p
\*  WHERE i.id = $2 AND i.portfolio_id = p.id AND p.user_id = $1
updateInvestment_update(r) ==
  /\ req[r].pc = "ui_update"
  /\ LET q == Note(req[r])
         rows == {i \in VisInvestments(db, sessionUser) :
                    /\ i.id = q.iid
                    /\ \E p \in VisPortfolios(db, sessionUser) :
                          p.id = i.portfolio_id /\ p.user_id = q.userId}
         new(i) == [i EXCEPT !.amount = q.amount,
                             !.portfolio_id = IF q.newPid = 0 THEN @ ELSE q.newPid]
         ok == \A i \in rows :
                 /\ PortfolioOwner(db, new(i).portfolio_id) # NoUser
                 /\ new(i).amount >= 0
                 /\ PolicyInvestment(db, sessionUser, new(i))
     IN IF Aborted \/ ~ok
        THEN /\ req' = [req EXCEPT ![r] = Catch(q, ErrStorage)]
             /\ tx' = TxAfterError
             /\ UNCHANGED db
        ELSE IF rows = {}
        THEN /\ req' = [req EXCEPT ![r] = Catch(q, ErrInvestmentUpdatePermission)]
             /\ UNCHANGED <<tx, db>>
        ELSE /\ db' = [db EXCEPT !.investments = (@ \ rows) \cup {new(i) : i \in rows}]
             /\ req' = [req EXCEPT ![r] =
                          Goto([q EXCEPT !.wrote = @ \cup
                                   {PortfolioOwner(db, i.portfolio_id) : i \in rows} \cup
                                   {PortfolioOwner(db, new(i).portfolio_id) : i \in rows}],
                               "delcat")]
             /\ UNCHANGED tx
  /\ UNCHANGED <<Env, seq, sessionUser, txSaved, schemaInitialized, budget>>

\* vite.config.ts:594-711
updateInvestmentByPortfolio(r) ==
  \E pid \in PortfolioIds, iid \in InvestmentIds, a \in Amounts, h \in BOOLEAN,
     l \in LabelPayloads :
    /\ (~h => a = 10 /\ l[1] = <<>> /\ l[2] = <<>>)
    /\ Accept(r, "updateInvestmentByPortfolio",
              [IdleReq EXCEPT !.pid = pid, !.iid = iid, !.amount = a, !.hasAmount = h,
                              !.cats = l[1], !.tags = l[2], !.idx = 1])

updateInvestmentByPortfolio_begin(r) == BeginStmt(r, "uibp_begin", "uibp_update")

\* UPDATE investments SET ... WHERE id = $1 AND portfolio_id = $2
updateInvestmentByPortfolio_update(r) ==
  /\ req[r].pc = "uibp_update"
  /\ IF ~req[r].hasAmount
     THEN /\ req' = [req EXCEPT ![r] = Catch(@, ErrNoFields)]
          /\ UNCHANGED <<tx, db>>
     ELSE
     LET q == Note(req[r])
         rows == {i \in VisInvestments(db, sessionUser) :
                    i.id = q.iid /\ i.portfolio_id = q.pid}
         new(i) == [i EXCEPT !.amount = q.amount]
         ok == \A i \in rows : new(i).amount >= 0
     IN IF Aborted \/ ~ok
        THEN /\ req' = [req EXCEPT ![r] = Catch(q, ErrStorage)]
             /\ tx' = TxAfterError
             /\ UNCHANGED db
        ELSE IF rows = {}
        THEN /\ req' = [req EXCEPT ![r] = Catch(q, ErrInvestmentNotFound)]
             /\ UNCHANGED <<tx, db>>
        ELSE /\ db' = [db EXCEPT !.investments = (@ \ rows) \cup {new(i) : i \in rows}]
             /\ req' = [req EXCEPT ![r] =
                          Goto([q EXCEPT !.wrote = @ \cup
                                   {PortfolioOwner(db, i.portfolio_id) : i \in rows}],
                               "delcat")]
             /\ UNCHANGED tx
  /\ UNCHANGED <<Env, seq, sessionUser, txSaved, schemaInitialized, budget>>

\* DELETE FROM investment_categories WHERE investment_id = $1
\* (vite.config.ts:557-560, 677-680, 728-731)
deleteInvestmentCategories(r) ==
  /\ req[r].pc = "delcat"
  /\ LET q == Note(req[r])
         gone == {a \in VisInvCategories(db, sessionUser) : a.investment_id = q.iid}
     IN IF Aborted
        THEN /\ req' = [req EXCEPT ![r] = Catch(q, ErrStorage)]
             /\ UNCHANGED db
        ELSE /\ db' = [db EXCEPT !.investment_categories = @ \ gone]
             /\ req' = [req EXCEPT ![r] =
                          Goto([q EXCEPT !.wrote = @ \cup
                                  {InvestmentOwner(db, a.investment_id) : a \in gone}],
                               "deltag")]
  /\ UNCHANGED <<Env, seq, Session, schemaInitialized, budget>>

\* DELETE FROM investment_tags WHERE investment_id = $1
\* (vite.config.ts:562-564, 682-684, 733-735)
deleteInvestmentTags(r) ==
  /\ req[r].pc = "deltag"
  /\ LET q == Note(req[r])
         gone == {a \in VisInvTags(db, sessionUser) : a.investment_id = q.iid}
     IN IF Aborted
        THEN /\ req' = [req EXCEPT ![r] = Catch(q, ErrStorage)]
             /\ UNCHANGED db
        ELSE /\ db' = [db EXCEPT !.investment_tags = @ \ gone]
             /\ req' = [req EXCEPT ![r] =
                          Goto([q EXCEPT !.wrote = @ \cup
                                  {InvestmentOwner(db, a.investment_id) : a \in gone}],
                               IF q.op = "deleteInvestment" THEN "di_distributions"
                               ELSE AfterMain(q))]
  /\ UNCHANGED <<Env, seq, Session, schemaInitialized, budget>>

\* vite.config.ts:714-768
deleteInvestment(r) ==
  \E iid \in InvestmentIds :
    Accept(r, "deleteInvestment", [IdleReq EXCEPT !.iid = iid])

deleteInvestment_begin(r) == BeginStmt(r, "di_begin", "delcat")

\* DELETE FROM distributions WHERE investment_id = $1
deleteInvestment_distributions(r) ==
  /\ req[r].pc = "di_distributions"
  /\ LET q == Note(req[r])
         gone == {x \in VisDistributions(db, sessionUser) : x.investment_id = q.iid}
     IN IF Aborted
        THEN /\ req' = [req EXCEPT ![r] = Catch(q, ErrStorage)]
             /\ UNCHANGED db
        ELSE /\ db' = [db EXCEPT !.distributions = @ \ gone]
             /\ req' = [req EXCEPT ![r] =
                          Goto([q EXCEPT !.wrote = @ \cup
                                  {InvestmentOwner(db, x.investment_id) : x \in gone}],
                               "di_history")]
  /\ UNCHANGED <<Env, seq, Session, schemaInitialized, budget>>

\* DELETE FROM investment_value_history WHERE investment_id = $1; the table
\* exists only where security-and-snapshots.sql:86-95 has been run, and nothing
\* ever inserts into it
deleteInvestment_history(r) ==
  /\ req[r].pc = "di_history"
  /\ IF Aborted \/ ~secured
     THEN /\ req' = [req EXCEPT ![r] = Catch(Note(@), ErrStorage)]
          /\ tx' = TxAfterError
     ELSE /\ req' = [req EXCEPT ![r] = Goto(Note(@), "di_delete")]
          /\ UNCHANGED tx
  /\ UNCHANGED <<Env, db, seq, sessionUser, txSaved, schemaInitialized, budget>>

\* DELETE FROM investments i USING portfolios p
\*  WHERE i.id = $2 AND i.portfolio_id = p.id AND p.user_id = $1
deleteInvestment_delete(r) ==
  /\ req[r].pc = "di_delete"
  /\ LET q == Note(req[r])
         rows == {i \in VisInvestments(db, sessionUser) :
                    /\ i.id = q.iid
                    /\ \E p \in VisPortfolios(db, sessionUser) :
                          p.id = i.portfolio_id /\ p.user_id = q.userId}
         ids == {i.id : i \in rows}
     IN IF Aborted
        THEN /\ req' = [req EXCEPT ![r] = Catch(q, ErrStorage)]
             /\ UNCHANGED db
        ELSE IF rows = {}
        THEN /\ req' = [req EXCEPT ![r] = Catch(q, ErrInvestmentDeletePermission)]
             /\ UNCHANGED db
        ELSE /\ db' = [db EXCEPT
                         !.investments = @ \ rows,
                         !.distributions = {x \in @ : x.investment_id \notin ids},
                         !.investment_categories = {a \in @ : a.investment_id \notin ids},
                         !.investment_tags = {a \in @ : a.investment_id \notin ids}]
             /\ req' = [req EXCEPT ![r] =
                          Goto([q EXCEPT !.wrote = @ \cup
                                  {PortfolioOwner(db, i.portfolio_id) : i \in rows}],
                               "commit")]
  /\ UNCHANGED <<Env, seq, Session, schemaInitialized, budget>>

\* vite.config.ts:771-800
createDistribution(r) ==
  /\ seq.distributions <= maxIds.distributions
  /\ \E iid \in InvestmentIds, a \in Amounts :
       Accept(r, "createDistribution", [IdleReq EXCEPT !.iid = iid, !.amount = a])

createDistribution_insert(r) ==
  /\ req[r].pc = "cd_insert"
  /\ LET q == Note(req[r])
         row == Distribution(seq.distributions, q.iid, q.amount)
         ok == /\ InvestmentOwner(db, q.iid) # NoUser
               /\ (secured => q.amount >= 0)
               /\ PolicyDistribution(db, sessionUser, row)
     IN IF Aborted \/ ~ok
        THEN /\ req' = [req EXCEPT ![r] = Throw(q, ErrStorage)]
             /\ tx' = TxAfterError
             /\ UNCHANGED db
        ELSE /\ db' = [db EXCEPT !.distributions = @ \cup {row}]
             /\ req' = [req EXCEPT ![r] =
                          Return([q EXCEPT !.wrote = @ \cup {InvestmentOwner(db, q.iid)}])]
             /\ UNCHANGED tx
  /\ seq' = IF Aborted THEN seq ELSE [seq EXCEPT !.distributions = @ + 1]
  /\ UNCHANGED <<Env, sessionUser, txSaved, schemaInitialized, budget>>

\* ------------------------------------------------------ portfolio handlers
\* vite.config.ts:1026-1095
getPortfolios(r) == Accept(r, "getPortfolios", IdleReq)

getPortfolios_select(r) ==
  /\ req[r].pc = "gp_select"
  /\ LET q == Note(req[r])
         rows == {p \in VisPortfolios(db, sessionUser) : p.user_id = q.userId}
         joined == {i \in VisInvestments(db, sessionUser) :
                      \E p \in rows : p.id = i.portfolio_id}
         owners == {p.user_id : p \in rows}
                     \cup {PortfolioOwner(db, i.portfolio_id) : i \in joined}
         of(p) == {i \in joined : i.portfolio_id = p.id}
         mapped == {[id |-> p.id,
                     investment_count |-> Cardinality(of(p)),
                     total_invested |-> SumValue(of(p), "stock"),
                     total_distributions |->
                       SumAmount({x \in VisDistributions(db, sessionUser) :
                                    \E i \in of(p) : i.id = x.investment_id})] :
                    p \in rows}
     IN req' = [req EXCEPT ![r] =
                  IF Aborted THEN Throw(q, ErrStorage)
                  ELSE Return([q EXCEPT !.seen = @ \cup owners, !.result = mapped])]
  /\ UNCHANGED <<Env, db, seq, Session, schemaInitialized, budget>>

\* vite.config.ts:1098-1149
getPortfolioWithInvestments(r) ==
  \E pid \in PortfolioIds :
    Accept(r, "getPortfolioWithInvestments", [IdleReq EXCEPT !.pid = pid])

\* SELECT ... FROM portfolios p ... WHERE p.user_id = $1 AND p.id = $2
selectPortfolio(d, s, u, pid) ==
  {p \in VisPortfolios(d, s) : p.user_id = u /\ p.id = pid}

getPortfolioWithInvestments_portfolio(r) ==
  /\ req[r].pc = "gpwi_portfolio"
  /\ LET q == Note(req[r])
         rows == selectPortfolio(db, sessionUser, q.userId, q.pid)
     IN req' = [req EXCEPT ![r] =
                  IF Aborted THEN Throw(q, ErrStorage)
                  ELSE IF rows = {} THEN Throw(q, ErrPortfolioNotFound)
                  ELSE Goto([q EXCEPT !.seen = @ \cup {p.user_id : p \in rows}],
                            "gpwi_investments")]
  /\ UNCHANGED <<Env, db, seq, Session, schemaInitialized, budget>>

getPortfolioWithInvestments_investments(r) ==
  /\ req[r].pc = "gpwi_investments"
  /\ LET q == Note(req[r])
         rows == {i \in VisInvestments(db, sessionUser) : i.portfolio_id = q.pid}
         total_distributions(i) ==
           SumAmount({x \in VisDistributions(db, sessionUser) : x.investment_id = i.id})
         investments == {[id |-> i.id,
                          total_distributions |-> total_distributions(i),
                          current_return |-> total_distributions(i)
                                               - SumValue({i}, "stock")] : i \in rows}
     IN req' = [req EXCEPT ![r] =
                  IF Aborted THEN Throw(q, ErrStorage)
                  ELSE Return([q EXCEPT !.seen = @ \cup
                                 {PortfolioOwner(db, i.portfolio_id) : i \in rows},
                               !.result = investments])]
  /\ UNCHANGED <<Env, db, seq, Session, schemaInitialized, budget>>

\* vite.config.ts:1152-1178
createPortfolio(r) ==
  /\ seq.portfolios <= MaxPortfolioId
  /\ \E n \in PortfolioNames :
       Accept(r, "createPortfolio", [IdleReq EXCEPT !.name = n])

createPortfolio_insert(r) ==
  /\ req[r].pc = "cp_insert"
  /\ LET q == Note(req[r])
         row == Portfolio(seq.portfolios, q.userId, q.name)
         ok == /\ q.userId \in db.users
               /\ ~\E p \in db.portfolios : p.user_id = row.user_id /\ p.name = row.name
               /\ PolicyPortfolio(db, sessionUser, row)
     IN IF Aborted \/ ~ok
        THEN /\ req' = [req EXCEPT ![r] = Throw(q, ErrStorage)]
             /\ tx' = TxAfterError
             /\ UNCHANGED db
        ELSE /\ db' = [db EXCEPT !.portfolios = @ \cup {row}]
             /\ req' = [req EXCEPT ![r] = Return([q EXCEPT !.wrote = @ \cup {row.user_id}])]
             /\ UNCHANGED tx
  /\ seq' = IF Aborted THEN seq ELSE [seq EXCEPT !.portfolios = @ + 1]
  /\ UNCHANGED <<Env, sessionUser, txSaved, schemaInitialized, budget>>

\* vite.config.ts:1181-1206
updatePortfolio(r) ==
  \E pid \in PortfolioIds, n \in PortfolioNames :
    Accept(r, "updatePortfolio", [IdleReq EXCEPT !.pid = pid, !.name = n])

updatePortfolio_update(r) ==
  /\ req[r].pc = "up_update"
  /\ LET q == Note(req[r])
         rows == {p \in VisPortfolios(db, sessionUser) :
                    p.id = q.pid /\ p.user_id = q.userId}
         new(p) == [p EXCEPT !.name = q.name]
         ok == \A p \in rows :
                 ~\E o \in db.portfolios \ {p} : o.user_id = p.user_id /\ o.name = q.name
     IN IF Aborted \/ ~ok
        THEN /\ req' = [req EXCEPT ![r] = Throw(q, ErrStorage)]
             /\ tx' = TxAfterError
             /\ UNCHANGED db
        ELSE IF rows = {}
        THEN /\ req' = [req EXCEPT ![r] = Throw(q, ErrPortfolioUpdate)]
             /\ UNCHANGED <<tx, db>>
        ELSE /\ db' = [db EXCEPT !.portfolios = (@ \ rows) \cup {new(p) : p \in rows}]
             /\ req' = [req EXCEPT ![r] =
                          Return([q EXCEPT !.wrote = @ \cup {p.user_id : p \in rows}])]
             /\ UNCHANGED tx
  /\ UNCHANGED <<Env, seq, sessionUser, txSaved, schemaInitialized, budget>>

\* vite.config.ts:1209-1239
deletePortfolio(r) ==
  \E pid \in PortfolioIds :
    Accept(r, "deletePortfolio", [IdleReq EXCEPT !.pid = pid])

\* a count that finds no investment
deletePortfolio_countWrong(d, s, pid) == Cardinality({})
\* SELECT COUNT(*) as count FROM investments WHERE portfolio_id = $1
deletePortfolio_count(d, s, pid) ==
  Cardinality({i \in VisInvestments(d, s) : i.portfolio_id = pid})

deletePortfolio_check(r) ==
  /\ req[r].pc = "dp_count"
  /\ LET q == Note(req[r])
     IN req' = [req EXCEPT ![r] =
                  IF Aborted THEN Throw(q, ErrStorage)
                  ELSE IF deletePortfolio_count(db, sessionUser, q.pid) > 0
                  THEN Throw(q, ErrPortfolioHasInvestments)
                  ELSE Goto(q, "dp_delete")]
  /\ UNCHANGED <<Env, db, seq, Session, schemaInitialized, budget>>

\* DELETE FROM portfolios WHERE id = $1 AND user_id = $2 RETURNING *
deletePortfolio_delete(r) ==
  /\ req[r].pc = "dp_delete"
  /\ LET q == Note(req[r])
         rows == {p \in VisPortfolios(db, sessionUser) :
                    p.id = q.pid /\ p.user_id = q.userId}
     IN IF Aborted
        THEN /\ req' = [req EXCEPT ![r] = Throw(q, ErrStorage)]
             /\ UNCHANGED db
        ELSE IF rows = {}
        THEN /\ req' = [req EXCEPT ![r] = Throw(q, ErrPortfolioNotFound)]
             /\ UNCHANGED db
        ELSE /\ db' = CascadePortfolios(db, {p.id : p \in rows})
             /\ req' = [req EXCEPT ![r] =
                          Return([q EXCEPT !.wrote = @ \cup {p.user_id : p \in rows}])]
  /\ UNCHANGED <<Env, seq, Session, schemaInitialized, budget>>

\* vite.config.ts:929-969: no identity is resolved or bound
createUser(r) ==
  /\ Arrives(r)
  /\ seq.users <= MaxUserId
  /\ seq.portfolios <= MaxPortfolioId
  /\ budget' = budget - 1
  /\ req' = [req EXCEPT ![r] = [IdleReq EXCEPT !.op = "createUser", !.pc = "cu_user",
                                               !.pre = db]]
  /\ UNCHANGED <<Env, db, seq, Session, schemaInitialized>>

createUser_insertUser(r) ==
  /\ req[r].pc = "cu_user"
  /\ LET q == req[r]
         id == seq.users
     IN IF Aborted \/ id \in db.users
        THEN /\ req' = [req EXCEPT ![r] = Throw(q, ErrStorage)]
             /\ tx' = TxAfterError
             /\ UNCHANGED db
        ELSE /\ db' = [db EXCEPT !.users = @ \cup {id}]
             /\ req' = [req EXCEPT ![r] = Goto([q EXCEPT !.userId = id], "cu_portfolio")]
             /\ UNCHANGED tx
  /\ seq' = IF Aborted THEN seq ELSE [seq EXCEPT !.users = @ + 1]
  /\ UNCHANGED <<Env, sessionUser, txSaved, schemaInitialized, budget>>

createUser_insertPortfolio(r) ==
  /\ req[r].pc = "cu_portfolio"
  /\ LET q == Note(req[r])
         row == Portfolio(seq.portfolios, q.userId, "My Portfolio")
         ok == /\ q.userId \in db.users
               /\ ~\E p \in db.portfolios : p.user_id = row.user_id /\ p.name = row.name
               /\ PolicyPortfolio(db, sessionUser, row)
     IN IF Aborted \/ ~ok
        THEN /\ req' = [req EXCEPT ![r] = Throw(q, ErrStorage)]
             /\ tx' = TxAfterError
             /\ UNCHANGED db
        ELSE /\ db' = [db EXCEPT !.portfolios = @ \cup {row}]
             /\ req' = [req EXCEPT ![r] = Return([q EXCEPT !.wrote = @ \cup {row.user_id}])]
             /\ UNCHANGED tx
  /\ seq' = IF Aborted THEN seq ELSE [seq EXCEPT !.portfolios = @ + 1]
  /\ UNCHANGED <<Env, sessionUser, txSaved, schemaInitialized, budget>>

\* ------------------------------------------------------- snapshot handlers
\* security-and-snapshots.sql:354-384; the function reads through the policies
\* of the calling session
compute_portfolio_snapshot(d, s, pid) ==
  LET inv == {i \in VisInvestments(d, s) : i.portfolio_id = pid}
      dis == {x \in VisDistributions(d, s) : \E i \in inv : i.id = x.investment_id}
  IN [total_value |-> SumValue(inv, "stocks"), total_invested |-> SumAmount(inv),
      total_distributions |-> SumAmount(dis), investment_count |-> Cardinality(inv)]

\* security-and-snapshots.sql:387-420
compute_user_snapshot(d, s, u) ==
  LET ps == {p \in VisPortfolios(d, s) : p.user_id = u}
      inv == {i \in VisInvestments(d, s) : \E p \in ps : p.id = i.portfolio_id}
      dis == {x \in VisDistributions(d, s) : \E i \in inv : i.id = x.investment_id}
  IN [total_value |-> SumValue(inv, "stocks"), total_invested |-> SumAmount(inv),
      total_distributions |-> SumAmount(dis), portfolio_count |-> Cardinality(ps),
      investment_count |-> Cardinality(inv)]

\* security-and-snapshots.sql:423-458: INSERT ... ON CONFLICT (portfolio_id,
\* snapshot_date) DO UPDATE; FALSE stands for the statement failing
CanSavePortfolioSnapshot(d, s, pid) ==
  /\ secured
  /\ PortfolioOwner(d, pid) # NoUser
  /\ PolicyPortfolioSnapshot(d, s, [portfolio_id |-> pid])
save_portfolio_snapshotKeepsOld(d, s, pid, date) ==
  LET row == [portfolio_id |-> pid, snapshot_date |-> date,
              v |-> compute_portfolio_snapshot(d, s, pid)]
  IN IF \E x \in d.portfolio_daily_snapshots : x.portfolio_id = pid /\ x.snapshot_date = date
     THEN d
     ELSE [d EXCEPT !.portfolio_daily_snapshots = @ \cup {row}]
save_portfolio_snapshot(d, s, pid, date) ==
  LET row == [portfolio_id |-> pid, snapshot_date |-> date,
              v |-> compute_portfolio_snapshot(d, s, pid)]
  IN [d EXCEPT !.portfolio_daily_snapshots =
        {x \in @ : ~(x.portfolio_id = pid /\ x.snapshot_date = date)} \cup {row}]

\* security-and-snapshots.sql:461-499
CanSaveUserSnapshot(d, s, u) ==
  /\ secured
  /\ u \in d.users
  /\ PolicyUserSnapshot(d, s, [user_id |-> u])
save_user_snapshot(d, s, u, date) ==
  LET row == [user_id |-> u, snapshot_date |-> date, v |-> compute_user_snapshot(d, s, u)]
  IN [d EXCEPT !.user_daily_snapshots =
        {x \in @ : ~(x.user_id = u /\ x.snapshot_date = date)} \cup {row}]

\* vite.config.ts:1341-1370
getPortfolioSnapshots(r) ==
  \E pid \in PortfolioIds :
    Accept(r, "getPortfolioSnapshots", [IdleReq EXCEPT !.pid = pid])

getPortfolioSnapshots_select(r) ==
  /\ req[r].pc = "gps_select"
  /\ LET q == Note(req[r])
         rows == {x \in VisPortfolioSnapshots(db, sessionUser) : x.portfolio_id = q.pid}
     IN /\ req' = [req EXCEPT ![r] =
                     IF Aborted \/ ~secured THEN Throw(q, ErrStorage)
                     ELSE Return([q EXCEPT !.seen = @ \cup
                                    {PortfolioOwner(db, x.portfolio_id) : x \in rows}])]
        /\ tx' = IF ~secured THEN TxAfterError ELSE tx
  /\ UNCHANGED <<Env, db, seq, sessionUser, txSaved, schemaInitialized, budget>>

\* vite.config.ts:1373-1403
getUserSnapshots(r) == Accept(r, "getUserSnapshots", IdleReq)

getUserSnapshots_select(r) ==
  /\ req[r].pc = "gus_select"
  /\ LET q == Note(req[r])
         rows == {x \in VisUserSnapshots(db, sessionUser) : x.user_id = q.userId}
     IN /\ req' = [req EXCEPT ![r] =
                     IF Aborted \/ ~secured THEN Throw(q, ErrStorage)
                     ELSE Return([q EXCEPT !.seen = @ \cup {x.user_id : x \in rows}])]
        /\ tx' = IF ~secured THEN TxAfterError ELSE tx
  /\ UNCHANGED <<Env, db, seq, sessionUser, txSaved, schemaInitialized, budget>>

\* vite.config.ts:1406-1424
savePortfolioSnapshot(r) ==
  \E pid \in PortfolioIds, d \in Dates :
    Accept(r, "savePortfolioSnapshot", [IdleReq EXCEPT !.pid = pid, !.date = d])

savePortfolioSnapshot_save(r) ==
  /\ req[r].pc = "sps_save"
  /\ LET q == Note(req[r])
     IN IF Aborted \/ ~CanSavePortfolioSnapshot(db, sessionUser, q.pid)
        THEN /\ req' = [req EXCEPT ![r] = Throw(q, ErrStorage)]
             /\ tx' = TxAfterError
             /\ UNCHANGED db
        ELSE /\ db' = save_portfolio_snapshot(db, sessionUser, q.pid, q.date)
             /\ req' = [req EXCEPT ![r] =
                          Return([q EXCEPT !.wrote = @ \cup {PortfolioOwner(db, q.pid)}])]
             /\ UNCHANGED tx
  /\ UNCHANGED <<Env, seq, sessionUser, txSaved, schemaInitialized, budget>>

\* vite.config.ts:1427-1445
saveUserSnapshot(r) ==
  \E d \in Dates : Accept(r, "saveUserSnapshot", [IdleReq EXCEPT !.date = d])

saveUserSnapshot_save(r) ==
  /\ req[r].pc = "sus_save"
  /\ LET q == Note(req[r])
     IN IF Aborted \/ ~CanSaveUserSnapshot(db, sessionUser, q.userId)
        THEN /\ req' = [req EXCEPT ![r] = Throw(q, ErrStorage)]
             /\ tx' = TxAfterError
             /\ UNCHANGED db
        ELSE /\ db' = save_user_snapshot(db, sessionUser, q.userId, q.date)
             /\ req' = [req EXCEPT ![r] = Return([q EXCEPT !.wrote = @ \cup {q.userId}])]
             /\ UNCHANGED tx
  /\ UNCHANGED <<Env, seq, sessionUser, txSaved, schemaInitialized, budget>>

\* ORDER BY id of the users query
RECURSIVE SortedSeq(_)
SortedSeq(S) ==
  IF S = {} THEN <<>>
  ELSE LET m == CHOOSE x \in S : \A y \in S : x <= y IN <<m>> \o SortedSeq(S \ {m})

\* vite.config.ts:1448-1491
saveAllSnapshots(r) ==
  /\ Arrives(r)
  /\ budget' = budget - 1
  /\ \E d \in Dates :
       req' = [req EXCEPT ![r] =
                 LET q == [IdleReq EXCEPT !.op = "saveAllSnapshots", !.date = d, !.pre = db]
                 IN IF mode = "production" THEN Throw(q, ErrNotInProduction)
                    ELSE Goto(q, "sas_users")]
  /\ UNCHANGED <<Env, db, seq, Session, schemaInitialized>>

\* const users = await client.query('SELECT id FROM users ORDER BY id')
saveAllSnapshots_users(r) ==
  /\ req[r].pc = "sas_users"
  /\ req' = [req EXCEPT ![r] =
               IF Aborted THEN Throw(@, ErrStorage)
               ELSE IF db.users = {} THEN Return(@)
               ELSE Goto([@ EXCEPT !.list = SortedSeq(db.users), !.idx = 1], "sas_bind")]
  /\ UNCHANGED <<Env, db, seq, Session, schemaInitialized, budget>>

\* the catch of the per-user try (vite.config.ts:1483-1485) with the error
\* thrown on instead of logged
saveAllSnapshots_catchRethrows(q) == Throw(q, ErrStorage)
\* vite.config.ts:1483-1485: the error is logged and the loop goes on
saveAllSnapshots_catch(q) ==
  IF q.idx < Len(q.list) THEN Goto([q EXCEPT !.idx = @ + 1], "sas_bind")
  ELSE Return(q)

\* await setSessionUser(user.id), inside the per-user try
saveAllSnapshots_bind(r) ==
  /\ req[r].pc = "sas_bind"
  /\ LET q == req[r]
     IN IF Aborted
        THEN /\ req' = [req EXCEPT ![r] = saveAllSnapshots_catch(q)]
             /\ UNCHANGED sessionUser
        ELSE /\ sessionUser' = q.list[q.idx]
             /\ req' = [req EXCEPT ![r] = Goto([q EXCEPT !.bound = TRUE], "sas_save")]
  /\ UNCHANGED <<Env, db, seq, tx, txSaved, schemaInitialized, budget>>

\* await client.query('SELECT save_user_snapshot($1, $2)', [user.id, snapshotDate])
saveAllSnapshots_save(r) ==
  /\ req[r].pc = "sas_save"
  /\ LET q == Note(req[r])
         u == q.list[q.idx]
         next(x) == IF q.idx < Len(q.list) THEN Goto([x EXCEPT !.idx = @ + 1], "sas_bind")
                    ELSE Return(x)
     IN IF Aborted \/ ~CanSaveUserSnapshot(db, sessionUser, u)
        THEN /\ req' = [req EXCEPT ![r] = saveAllSnapshots_catch(q)]
             /\ tx' = TxAfterError
             /\ UNCHANGED db
        ELSE /\ db' = save_user_snapshot(db, sessionUser, u, q.date)
             /\ req' = [req EXCEPT ![r] =
                          next([q EXCEPT !.saved = @ + 1, !.wrote = @ \cup {u}])]
             /\ UNCHANGED tx
  /\ UNCHANGED <<Env, seq, sessionUser, txSaved, schemaInitialized, budget>>

\* ---------------------------------------------------------- stock prices
\* UPDATE investments SET current_stock_price = $1, stock_price_updated_at = NOW()
\* WHERE id = $2 (vite.config.ts:1291-1297), through the policies of session s;
\* NOW() is the last calendar day of the run
setStockPriceOfAll(d, s, id, price) ==
  [d EXCEPT !.investments =
     {IF i \in VisInvestments(d, s)
      THEN [i EXCEPT !.current_stock_price = price, !.stock_price_updated_at = days]
      ELSE i : i \in @}]
setStockPrice(d, s, id, price) ==
  [d EXCEPT !.investments =
     {IF i.id = id /\ i \in VisInvestments(d, s)
      THEN [i EXCEPT !.current_stock_price = price, !.stock_price_updated_at = days]
      ELSE i : i \in @}]

\* vite.config.ts:1242-1254
updateUserStockPrices(r) == Accept(r, "updateUserStockPrices", IdleReq)

\* vite.config.ts:1256-1283 and the outer catch, 1327-1334: the investments of
\* the caller that are stocks with a symbol and a price older than 24 hours
updateUserStockPrices_select(r) ==
  /\ req[r].pc = "usp_select"
  /\ LET q == Note(req[r])
         rows == {i \in VisInvestments(db, sessionUser) :
                    /\ \E p \in VisPortfolios(db, sessionUser) :
                         p.id = i.portfolio_id /\ p.user_id = q.userId
                    /\ i.investment_type = "stock"
                    /\ i.stock_symbol # ""
                    /\ i.stock_price_updated_at < days}
     IN req' = [req EXCEPT ![r] =
                  IF Aborted THEN Return([q EXCEPT !.errors = <<ErrStorage>>])
                  ELSE IF rows = {} THEN Return(q)
                  ELSE Goto([q EXCEPT !.list = SortedSeq({i.id : i \in rows}), !.idx = 1,
                                      !.seen = @ \cup {InvestmentOwner(db, i.id) : i \in rows}],
                            "usp_quote")]
  /\ UNCHANGED <<Env, db, seq, Session, schemaInitialized, budget>>

\* await getStockQuote({ data: { symbol } }) (src/data/stocks.ts:108-162) and
\* the inner catch (vite.config.ts:1308-1324). The provider answers the fetch
\* with a quote, with an HTTP error status, or with a 200 body that has no
\* 'Global Quote' (a Note about the call frequency, or no data for the symbol);
\* the fetch itself can fail, and without AV_API_KEY nothing is fetched.
\* thrown is the message getStockQuote throws for an answer, stops the test
\* message.includes('API') || includes('rate limit') || includes('Note').
\* quotes, limited, late and fresh record the requests of the run: the ids
\* asked for, whether the provider has signalled its rate limit, whether a
\* request was made after that, and whether one was made for an investment
\* whose price was already of today
getStockQuote(r) ==
  /\ req[r].pc = "usp_quote"
  /\ LET id == req[r].list[req[r].idx]
         q == [req[r] EXCEPT
                 !.quotes = Append(@, id),
                 !.late = @ \/ req[r].limited,
                 !.fresh = @ \/ \E i \in db.investments :
                                  i.id = id /\ i.stock_price_updated_at >= days]
         thrown(answer) ==
           CASE answer = "no AV_API_KEY" -> "Alpha Vantage API key not configured"
             [] answer = "429 Too Many Requests" ->
                  "Alpha Vantage API error: Too Many Requests"
             [] answer = "200 Note" -> "Invalid stock symbol or no data available"
             [] answer = "200 no data" -> "Invalid stock symbol or no data available"
             [] answer = "network" -> "fetch failed"
         stops(msg) == msg \in {"Alpha Vantage API key not configured",
                                "Alpha Vantage API error: Too Many Requests"}
         failure(answer) ==
           LET x == [q EXCEPT !.errors = Append(@, thrown(answer)),
                              !.failed = @ \cup {id},
                              !.limited = @ \/ answer \in {"429 Too Many Requests",
                                                           "200 Note"}]
           IN IF stops(thrown(answer)) \/ q.idx = Len(q.list) THEN Return(x)
              ELSE [x EXCEPT !.idx = @ + 1]
     IN \/ \E price \in {15, 25} :
             req' = [req EXCEPT ![r] = Goto([q EXCEPT !.price = price], "usp_update")]
        \/ \E answer \in {"no AV_API_KEY", "429 Too Many Requests", "200 Note",
                          "200 no data", "network"} :
             req' = [req EXCEPT ![r] = failure(answer)]
  /\ UNCHANGED <<Env, db, seq, Session, schemaInitialized, budget>>

\* vite.config.ts:1291-1304: the UPDATE, updatedCount++, and on to the next
updateUserStockPrices_update(r) ==
  /\ req[r].pc = "usp_update"
  /\ LET q == Note(req[r])
         id == q.list[q.idx]
         next(x) == IF q.idx = Len(q.list) THEN Return(x) ELSE Goto([x EXCEPT !.idx = @ + 1], "usp_quote")
     IN IF Aborted
        THEN /\ req' = [req EXCEPT ![r] =
                          next([q EXCEPT !.errors = Append(@, ErrStorage),
                                         !.failed = @ \cup {id}])]
             /\ UNCHANGED db
        ELSE /\ db' = setStockPrice(db, sessionUser, id, q.price)
             /\ req' = [req EXCEPT ![r] =
                          next([q EXCEPT !.saved = @ + 1,
                                         !.wrote = @ \cup
                                           (IF db' = db THEN {} ELSE {InvestmentOwner(db, id)})])]
  /\ UNCHANGED <<Env, seq, Session, schemaInitialized, budget>>

\* ------------------------------------------------- schema initialisation
\* initializeSchema statement by statement, for the two versions of
\* data/investments.ts in the repository. The request handlers above hold the
\* tables in db and meet a database on which every table exists; here the
\* database is pg, which also records which tables, columns, indexes, functions
\* and triggers exist, and the callers of initializeSchema are boot.
\* SELECT setval('users_id_seq', 10, false)
MockUserSeq == 10

\* the statements of createFreshSchema (vite.config.ts:84-230 and
\* src/data/investments.ts:71-212, which ends with createMockData, 286-317) and
\* of performPortfolioMigration (src/data/investments.ts:215-283), in the
\* order of their awaits; the investments table of the current version has the
\* stock columns
SchemaStatements(b) ==
  LET Statement(kind) ==
        [kind |-> kind, t |-> "", name |-> "", col |-> "", refs |-> {}, cols |-> {},
         id |-> 0, email |-> ""]
      CreateTable(t, refs, cols) ==
        [Statement("CREATE TABLE IF NOT EXISTS") EXCEPT !.t = t, !.refs = refs, !.cols = cols]
      CreateIndex(name, t, col) ==
        [Statement("CREATE INDEX IF NOT EXISTS") EXCEPT !.name = name, !.t = t, !.col = col]
      CreateTrigger(name, t) ==
        [Statement("CREATE OR REPLACE TRIGGER") EXCEPT !.name = name, !.t = t]
      InsertMockUser(id, email) ==
        [Statement("INSERT INTO users ON CONFLICT (email) DO NOTHING")
           EXCEPT !.id = id, !.email = email]
      InsertMockPortfolio(id) ==
        [Statement("INSERT INTO portfolios ON CONFLICT (user_id, name) DO NOTHING")
           EXCEPT !.id = id]
      createMockData ==
        << InsertMockUser(1, "john@example.com"), InsertMockPortfolio(1),
           InsertMockUser(2, "jane@example.com"), InsertMockPortfolio(2),
           InsertMockUser(3, "bob@example.com"), InsertMockPortfolio(3),
           [Statement("SELECT setval('users_id_seq')") EXCEPT !.id = MockUserSeq] >>
  IN [createFreshSchema |->
        << CreateTable("users", {}, {}),
           CreateTable("portfolios", {"users"}, {}),
           CreateTable("categories", {"users"}, {}),
           CreateTable("tags", {"users"}, {}),
           CreateTable("investment_types", {"users"}, {}),
           CreateTable("investments", {"portfolios"},
                       IF b = "current" THEN {"portfolio_id", "stock_symbol"}
                       ELSE {"portfolio_id"}),
           CreateTable("distributions", {"investments"}, {}),
           CreateTable("investment_categories", {"investments", "categories"}, {}),
           CreateTable("investment_tags", {"investments", "tags"}, {}),
           CreateIndex("idx_portfolios_user_id", "portfolios", "user_id"),
           CreateIndex("idx_investments_portfolio_id", "investments", "portfolio_id"),
           CreateIndex("idx_distributions_investment_id", "distributions", "investment_id"),
           CreateIndex("idx_categories_user_id", "categories", "user_id"),
           CreateIndex("idx_tags_user_id", "tags", "user_id"),
           CreateIndex("idx_investment_types_user_id", "investment_types", "user_id"),
           CreateIndex("idx_distributions_date", "distributions", "date") >>
        \o (IF b = "current"
            THEN << CreateIndex("idx_investments_stock_symbol", "investments",
                                "stock_symbol") >>
            ELSE << >>)
        \o << [Statement("CREATE OR REPLACE FUNCTION")
                 EXCEPT !.name = "update_updated_at_column"],
              CreateTrigger("update_users_updated_at", "users"),
              CreateTrigger("update_portfolios_updated_at", "portfolios"),
              CreateTrigger("update_investments_updated_at", "investments") >>
        \o (IF b = "legacy" THEN createMockData ELSE << >>),
      performPortfolioMigration |->
        << CreateTable("portfolios", {"users"}, {}),
           Statement("INSERT INTO portfolios SELECT DISTINCT user_id"),
           Statement("ALTER TABLE investments ADD COLUMN IF NOT EXISTS portfolio_id"),
           Statement("UPDATE investments SET portfolio_id"),
           Statement("SELECT column_name"),
           Statement("ALTER COLUMN user_id DROP NOT NULL"),
           CreateIndex("idx_portfolios_user_id", "portfolios", "user_id"),
           CreateIndex("idx_investments_portfolio_id", "investments", "portfolio_id"),
           CreateTrigger("update_portfolios_updated_at", "portfolios") >>]

\* a column named by a statement exists; only the columns of investments
\* differ between the schemas
HasColumn(g, t, col) ==
  /\ t \in g.tables
  /\ t = "investments" /\ col \in {"user_id", "portfolio_id", "stock_symbol"}
       => col \in g.investmentsColumns

\* the users named by the legacy user_id column of investments
LegacyOwners(g) == {i.user_id : i \in {x \in g.investments : x.user_id # NoUser}}
HasDefaultPortfolio(g, u) ==
  \E p \in g.portfolios : p.user_id = u /\ p.name = "My Portfolio"

\* UPDATE investments SET portfolio_id = p.id FROM portfolios p
\* WHERE investments.user_id = p.user_id AND p.name = 'My Portfolio'
\*   AND investments.portfolio_id IS NULL
BackfillAny(g) ==
  {IF i.portfolio_id = 0 /\ g.portfolios # {}
   THEN [i EXCEPT !.portfolio_id = (CHOOSE p \in g.portfolios : TRUE).id]
   ELSE i : i \in g.investments}
Backfill(g) ==
  {IF i.portfolio_id = 0 /\ HasDefaultPortfolio(g, i.user_id)
   THEN [i EXCEPT !.portfolio_id =
           (CHOOSE p \in g.portfolios :
              p.user_id = i.user_id /\ p.name = "My Portfolio").id]
   ELSE i : i \in g.investments}

\* what the database does with one statement: ok is FALSE when it raises
Exec(st, g) ==
  LET Failed(x) == [ok |-> FALSE, pg |-> x, found |-> FALSE]
      Done(x) == [ok |-> TRUE, pg |-> x, found |-> FALSE]
  IN
  CASE st.kind = "CREATE TABLE IF NOT EXISTS" ->
         IF st.t \in g.tables THEN Done(g)
         ELSE IF ~(st.refs \subseteq g.tables) THEN Failed(g)
         ELSE Done([g EXCEPT !.tables = @ \cup {st.t},
                             !.investmentsColumns =
                               IF st.t = "investments" THEN st.cols ELSE @])
    [] st.kind = "CREATE INDEX IF NOT EXISTS" ->
         IF st.name \in g.indexes THEN Done(g)
         ELSE IF ~HasColumn(g, st.t, st.col) THEN Failed(g)
         ELSE Done([g EXCEPT !.indexes = @ \cup {st.name}])
    [] st.kind = "CREATE OR REPLACE FUNCTION" ->
         Done([g EXCEPT !.functions = @ \cup {st.name}])
    [] st.kind = "CREATE OR REPLACE TRIGGER" ->
         IF st.t \in g.tables /\ "update_updated_at_column" \in g.functions
         THEN Done([g EXCEPT !.triggers = @ \cup {st.name}])
         ELSE Failed(g)
    [] st.kind = "INSERT INTO users ON CONFLICT (email) DO NOTHING" ->
         IF "users" \notin g.tables THEN Failed(g)
         ELSE IF \E u \in g.users : u.email = st.email THEN Done(g)
         ELSE IF \E u \in g.users : u.id = st.id THEN Failed(g)
         ELSE Done([g EXCEPT !.users = @ \cup {[id |-> st.id, email |-> st.email]}])
    [] st.kind = "INSERT INTO portfolios ON CONFLICT (user_id, name) DO NOTHING" ->
         IF "portfolios" \notin g.tables THEN Failed(g)
         ELSE LET h == [g EXCEPT !.portfolios_id_seq = @ + 1]
              IN IF HasDefaultPortfolio(g, st.id) THEN Done(h)
                 ELSE IF \/ \A u \in g.users : u.id # st.id
                         \/ \E p \in g.portfolios : p.id = g.portfolios_id_seq
                 THEN Failed(h)
                 ELSE Done([h EXCEPT !.portfolios = @ \cup
                              {[id |-> g.portfolios_id_seq, user_id |-> st.id,
                                name |-> "My Portfolio"]}])
    [] st.kind = "SELECT setval('users_id_seq')" ->
         IF "users" \in g.tables THEN Done([g EXCEPT !.users_id_seq = st.id])
         ELSE Failed(g)
    [] st.kind = "INSERT INTO portfolios SELECT DISTINCT user_id" ->
         IF ~(HasColumn(g, "investments", "user_id") /\ "portfolios" \in g.tables)
         THEN Failed(g)
         ELSE LET owners == LegacyOwners(g)
                  rank(o) == Cardinality({x \in owners : x < o})
                  h == [g EXCEPT !.portfolios_id_seq = @ + Cardinality(owners)]
                  new == {[id |-> g.portfolios_id_seq + rank(o), user_id |-> o,
                           name |-> "My Portfolio"] :
                            o \in {x \in owners : ~HasDefaultPortfolio(g, x)}}
              IN IF \/ \E o \in owners : \A u \in g.users : u.id # o
                    \/ \E n \in new : \E p \in g.portfolios : p.id = n.id
                 THEN Failed(h)
                 ELSE Done([h EXCEPT !.portfolios = @ \cup new])
    [] st.kind = "ALTER TABLE investments ADD COLUMN IF NOT EXISTS portfolio_id" ->
         IF "investments" \notin g.tables THEN Failed(g)
         ELSE IF "portfolio_id" \in g.investmentsColumns THEN Done(g)
         ELSE IF "portfolios" \notin g.tables THEN Failed(g)
         ELSE Done([g EXCEPT !.investmentsColumns = @ \cup {"portfolio_id"}])
    [] st.kind = "UPDATE investments SET portfolio_id" ->
         IF /\ HasColumn(g, "investments", "user_id")
            /\ HasColumn(g, "investments", "portfolio_id")
            /\ "portfolios" \in g.tables
         THEN Done([g EXCEPT !.investments = Backfill(g)])
         ELSE Failed(g)
    [] st.kind = "SELECT column_name" ->
         [Done(g) EXCEPT !.found = HasColumn(g, "investments", "user_id")]
    [] st.kind = "ALTER COLUMN user_id DROP NOT NULL" ->
         IF HasColumn(g, "investments", "user_id")
         THEN Done([g EXCEPT !.userIdNotNull = FALSE])
         ELSE Failed(g)

\* SELECT table_name FROM information_schema.tables WHERE table_name = t

\* if (schemaInitialized) return { success: true }
SkipsInitializationNever(flag) == FALSE
SkipsInitialization(flag) == flag

BootIdle ==
  [pc |-> "idle", i |-> 0, portfoliosExist |-> FALSE, investmentsExist |-> FALSE,
   needsMigration |-> FALSE, userIdColumn |-> FALSE, result |-> "", issued |-> 0,
   flagAtCall |-> FALSE, faulted |-> FALSE, failedBefore |-> FALSE, retry |-> FALSE]

Succeeds(b) == [b EXCEPT !.pc = "done", !.result = "success"]
\* catch (error) { console.error(...); throw error }
Fails(b) == [b EXCEPT !.pc = "done", !.result = "error", !.failedBefore = TRUE]

\* vite.config.ts:54-66 and src/data/investments.ts:26-36: the entry of
\* initializeSchema, up to its first await
initializeSchema_call(p) ==
  /\ p <= slots
  /\ boot[p].pc = "idle"
  /\ \A o \in Reqs : o < p => boot[o].pc # "idle"
  /\ budget > 0
  /\ budget' = budget - 1
  /\ pgAtCall' = [pgAtCall EXCEPT ![p] = pg]
  /\ LET b == [BootIdle EXCEPT !.failedBefore = boot[p].failedBefore,
                               !.retry = boot[p].failedBefore,
                               !.flagAtCall = schemaInitialized]
     IN boot' = [boot EXCEPT ![p] =
                   IF build = "current" /\ mode = "production" THEN Succeeds(b)
                   ELSE IF SkipsInitialization(schemaInitialized) THEN Succeeds(b)
                   ELSE IF build = "legacy" THEN [b EXCEPT !.pc = "checkPortfolios"]
                   ELSE [b EXCEPT !.pc = "createFreshSchema", !.i = 1]]
  /\ UNCHANGED <<mode, devUserId, secured, rls, slots, days, maxIds, kinds, build, pg, faults,
                 db, seq, Session, schemaInitialized, req>>

\* src/data/investments.ts:38-42
initializeSchema_portfoliosExist(p) ==
  /\ boot[p].pc = "checkPortfolios"
  /\ \/ /\ boot' = [boot EXCEPT ![p] =
                      [@ EXCEPT !.issued = @ + 1,
                                 !.pc = "checkInvestments",
                                        !.portfoliosExist = ("portfolios" \in pg.tables)]]
        /\ UNCHANGED faults
     \/ /\ faults > 0
        /\ faults' = faults - 1
        /\ boot' = [boot EXCEPT ![p] = Fails([@ EXCEPT !.issued = @ + 1, !.faulted = TRUE])]
  /\ UNCHANGED <<mode, devUserId, secured, rls, slots, days, maxIds, kinds, build, pg, pgAtCall,
                 db, seq, Session, schemaInitialized, req, budget>>

\* src/data/investments.ts:44-52
initializeSchema_investmentsExist(p) ==
  /\ boot[p].pc = "checkInvestments"
  /\ \/ /\ boot' = [boot EXCEPT ![p] =
                      LET found == ("investments" \in pg.tables)
                          migrate == found /\ ~@.portfoliosExist
                      IN [@ EXCEPT
                            !.issued = @ + 1,
                            !.investmentsExist = found,
                            !.needsMigration = migrate,
                            !.pc = IF migrate THEN "performPortfolioMigration"
                                   ELSE "createFreshSchema",
                            !.i = 1]]
        /\ UNCHANGED faults
     \/ /\ faults > 0
        /\ faults' = faults - 1
        /\ boot' = [boot EXCEPT ![p] = Fails([@ EXCEPT !.issued = @ + 1, !.faulted = TRUE])]
  /\ UNCHANGED <<mode, devUserId, secured, rls, slots, days, maxIds, kinds, build, pg, pgAtCall,
                 db, seq, Session, schemaInitialized, req, budget>>

\* one await client.query(...) of the statement list prog, and what follows it
\* up to the next await; after the last one, schemaInitialized = true
NextStatement(p, prog) ==
  LET b == boot[p]
      st == prog[b.i]
      res == Exec(st, pg)
      after(x) == IF b.i = Len(prog) THEN Succeeds(x) ELSE [x EXCEPT !.i = @ + 1]
      flag(x) == IF x.result = "success" THEN TRUE ELSE schemaInitialized
  IN IF st.kind = "ALTER COLUMN user_id DROP NOT NULL" /\ ~b.userIdColumn
     THEN /\ boot' = [boot EXCEPT ![p] = after(b)]
          /\ schemaInitialized' = flag(after(b))
          /\ UNCHANGED <<pg, faults>>
     ELSE \/ /\ res.ok
             /\ pg' = res.pg
             /\ LET x == after([b EXCEPT
                                  !.issued = @ + 1,
                                  !.userIdColumn =
                                    IF st.kind = "SELECT column_name" THEN res.found ELSE @])
                IN /\ boot' = [boot EXCEPT ![p] = x]
                   /\ schemaInitialized' = flag(x)
             /\ UNCHANGED faults
          \/ /\ ~res.ok
             /\ pg' = res.pg
             /\ boot' = [boot EXCEPT ![p] = Fails([b EXCEPT !.issued = @ + 1])]
             /\ UNCHANGED <<schemaInitialized, faults>>
          \/ /\ faults > 0
             /\ faults' = faults - 1
             /\ boot' = [boot EXCEPT ![p] = Fails([b EXCEPT !.issued = @ + 1, !.faulted = TRUE])]
             /\ UNCHANGED <<schemaInitialized, pg>>

\* vite.config.ts:84-230 and src/data/investments.ts:71-212
createFreshSchema(p) ==
  /\ boot[p].pc = "createFreshSchema"
  /\ NextStatement(p, SchemaStatements(build).createFreshSchema)
  /\ UNCHANGED <<mode, devUserId, secured, rls, slots, days, maxIds, kinds, build, pgAtCall,
                 db, seq, Session, req, budget>>

\* src/data/investments.ts:215-283
performPortfolioMigration(p) ==
  /\ boot[p].pc = "performPortfolioMigration"
  /\ NextStatement(p, SchemaStatements(build).performPortfolioMigration)
  /\ UNCHANGED <<mode, devUserId, secured, rls, slots, days, maxIds, kinds, build, pgAtCall,
                 db, seq, Session, req, budget>>

\* the caller of initializeSchema goes on
initializeSchema_return(p) ==
  /\ boot[p].pc = "done"
  /\ boot' = [boot EXCEPT ![p] = [BootIdle EXCEPT !.failedBefore = boot[p].failedBefore]]
  /\ UNCHANGED <<mode, devUserId, secured, rls, slots, days, maxIds, kinds, build, pg, pgAtCall,
                 faults, db, seq, Session, schemaInitialized, req, budget>>

\* the INSERTs of createUser (vite.config.ts:938-958, src/data/investments.ts:
\* 677-684) once the schema is there; the current version adds the default
\* portfolio
createUser_statements(email) ==
  /\ schemaInitialized
  /\ \A p \in Reqs : boot[p].pc = "idle"
  /\ budget > 0
  /\ budget' = budget - 1
  /\ LET id == pg.users_id_seq
         g == [pg EXCEPT !.users_id_seq = @ + 1]
     IN IF \E u \in pg.users : u.id = id \/ u.email = email
        THEN pg' = g
        ELSE LET h == [g EXCEPT !.users = @ \cup {[id |-> id, email |-> email]}]
             IN pg' = IF build = "current"
                      THEN [h EXCEPT !.portfolios_id_seq = @ + 1,
                                     !.portfolios = @ \cup
                                       {[id |-> h.portfolios_id_seq, user_id |-> id,
                                         name |-> "My Portfolio"]}]
                      ELSE h
  /\ UNCHANGED <<mode, devUserId, secured, rls, slots, days, maxIds, kinds, build, pgAtCall, faults,
                 boot, db, seq, Session, schemaInitialized, req>>

\* the server process is started again: the module-level flag is false again,
\* the database is as it was left
Restart ==
  /\ schemaInitialized
  /\ \A p \in Reqs : boot[p].pc = "idle"
  /\ schemaInitialized' = FALSE
  /\ UNCHANGED <<mode, devUserId, secured, rls, slots, days, maxIds, kinds, build, pg, pgAtCall,
                 faults, boot, db, seq, Session, req, budget>>

\* a whole fault-free run of a statement list from statement i on database g
RECURSIVE RunFrom(_, _, _, _)
RunFrom(prog, i, g, col) ==
  IF i > Len(prog) THEN g
  ELSE IF prog[i].kind = "ALTER COLUMN user_id DROP NOT NULL" /\ ~col
       THEN RunFrom(prog, i + 1, g, col)
       ELSE LET res == Exec(prog[i], g)
            IN IF res.ok
               THEN RunFrom(prog, i + 1, res.pg,
                            IF prog[i].kind = "SELECT column_name" THEN res.found ELSE col)
               ELSE res.pg

\* one initializeSchema, alone, on database g
SingleRun(b, g) ==
  IF b = "legacy" /\ ("investments" \in g.tables) /\ ~("portfolios" \in g.tables)
  THEN RunFrom(SchemaStatements(b).performPortfolioMigration, 1, g, FALSE)
  ELSE RunFrom(SchemaStatements(b).createFreshSchema, 1, g, FALSE)

\* a database server on which nothing has been created
EmptyDatabase ==
  [tables |-> {}, indexes |-> {}, functions |-> {}, triggers |-> {},
   investmentsColumns |-> {}, userIdNotNull |-> FALSE,
   users |-> {}, portfolios |-> {}, investments |-> {}, distributions |-> {},
   users_id_seq |-> 1, portfolios_id_seq |-> 1]

\* the database performPortfolioMigration is written for: the schema before
\* portfolios, investments carrying a NOT NULL user_id and no portfolio_id
PrePortfolioDatabase ==
  [EmptyDatabase EXCEPT
     !.tables = {"users", "categories", "tags", "investment_types", "investments",
                 "distributions", "investment_categories", "investment_tags"},
     !.indexes = {"idx_distributions_investment_id", "idx_categories_user_id",
                  "idx_tags_user_id", "idx_investment_types_user_id",
                  "idx_distributions_date"},
     !.functions = {"update_updated_at_column"},
     !.triggers = {"update_users_updated_at", "update_investments_updated_at"},
     !.investmentsColumns = {"user_id"},
     !.userIdNotNull = TRUE,
     !.users = {[id |-> 1, email |-> "john@example.com"],
                [id |-> 2, email |-> "jane@example.com"]},
     !.investments = {[id |-> 1, user_id |-> 1, portfolio_id |-> 0],
                      [id |-> 2, user_id |-> 1, portfolio_id |-> 0],
                      [id |-> 3, user_id |-> 2, portfolio_id |-> 0]},
     !.distributions = {[id |-> 1, investment_id |-> 1]},
     !.users_id_seq = MockUserSeq]

\* ------------------------------------------------------------ specification
\* Spec runs the server functions one request at a time; SpecRace overlaps the
\* requests of the handlers named in NextRace at every await.
\* A database on which schema creation has run: users 1 and 2 have each their
\* default portfolio, and user 1 a category and a tag (createUser, createCategory
\* and createTag of vite.config.ts:822-884,929-969). The deployment is any of:
\* security script not run, run without effective policies, run with policies.
SeedTables ==
  [EmptyTables EXCEPT
     !.users = {1, 2},
     !.portfolios = {Portfolio(1, 1, "My Portfolio"), Portfolio(2, 2, "My Portfolio")},
     !.categories = {Label(1, 1)},
     !.tags = {Label(1, 1)}]

Deployed ==
  /\ mode \in Modes
  /\ devUserId \in DevUserIdValues
  /\ secured \in BOOLEAN
  /\ rls \in BOOLEAN
  /\ rls => secured
  /\ db = SeedTables
  /\ seq = [users |-> 3, portfolios |-> 3, investments |-> 1, distributions |-> 1]
  /\ sessionUser = NoUser
  /\ tx = "idle"
  /\ txSaved = EmptyTables
  /\ schemaInitialized = FALSE
  /\ req = [r \in Reqs |-> IdleReq]
  /\ build = "current"
  /\ pg = SingleRun("current", EmptyDatabase)
  /\ pgAtCall = [p \in Reqs |-> pg]
  /\ boot = [p \in Reqs |-> BootIdle]
  /\ faults = 0

\* one request at a time
Init ==
  /\ Deployed /\ slots = 1 /\ budget = MaxRequests /\ days = 1
  /\ maxIds = [investments |-> MaxInvestmentId, distributions |-> MaxDistributionId]
  /\ kinds = {IdleReq.stock}
\* overlapping requests
InitRace ==
  /\ Deployed /\ slots = MaxSlots /\ budget = MaxRaceRequests /\ days = 1
  /\ maxIds = [investments |-> MaxInvestmentId, distributions |-> MaxDistributionId]
  /\ kinds = {IdleReq.stock}

Next ==
  \E r \in Reqs :
    \/ setSessionUser(r) \/ initializeSchema(r) \/ Respond(r)
    \/ Commit(r) \/ Rollback(r)
    \/ getInvestmentByPortfolio(r) \/ getInvestmentByPortfolio_select(r)
    \/ getInvestmentWithDetails(r) \/ getInvestmentWithDetails_select(r)
    \/ selectDetails(r)
    \/ createInvestment(r) \/ createInvestment_begin(r) \/ createInvestment_insert(r)
    \/ insertInvestmentCategory(r) \/ insertInvestmentTag(r)
    \/ updateInvestment(r) \/ updateInvestment_begin(r) \/ updateInvestment_update(r)
    \/ updateInvestmentByPortfolio(r) \/ updateInvestmentByPortfolio_begin(r)
    \/ updateInvestmentByPortfolio_update(r)
    \/ deleteInvestmentCategories(r) \/ deleteInvestmentTags(r)
    \/ deleteInvestment(r) \/ deleteInvestment_begin(r)
    \/ deleteInvestment_distributions(r) \/ deleteInvestment_history(r)
    \/ deleteInvestment_delete(r)
    \/ createDistribution(r) \/ createDistribution_insert(r)
    \/ getPortfolios(r) \/ getPortfolios_select(r)
    \/ getPortfolioWithInvestments(r) \/ getPortfolioWithInvestments_portfolio(r)
    \/ getPortfolioWithInvestments_investments(r)
    \/ createPortfolio(r) \/ createPortfolio_insert(r)
    \/ updatePortfolio(r) \/ updatePortfolio_update(r)
    \/ deletePortfolio(r) \/ deletePortfolio_check(r) \/ deletePortfolio_delete(r)
    \/ createUser(r) \/ createUser_insertUser(r) \/ createUser_insertPortfolio(r)
    \/ getPortfolioSnapshots(r) \/ getPortfolioSnapshots_select(r)
    \/ getUserSnapshots(r) \/ getUserSnapshots_select(r)
    \/ savePortfolioSnapshot(r) \/ savePortfolioSnapshot_save(r)
    \/ saveUserSnapshot(r) \/ saveUserSnapshot_save(r)
    \/ saveAllSnapshots(r) \/ saveAllSnapshots_users(r) \/ saveAllSnapshots_bind(r)
    \/ saveAllSnapshots_save(r)
Spec == Init /\ [][Next]_vars

\* interleavings of the handlers that contend for the shared client's binding and
\* for the rows of one portfolio
NextRace ==
  \E r \in Reqs :
    \/ setSessionUser(r) \/ initializeSchema(r) \/ Respond(r)
    \/ Commit(r) \/ Rollback(r)
    \/ createInvestment(r) \/ createInvestment_begin(r) \/ createInvestment_insert(r)
    \/ insertInvestmentCategory(r) \/ insertInvestmentTag(r)
    \/ getPortfolios(r) \/ getPortfolios_select(r)
    \/ deletePortfolio(r) \/ deletePortfolio_check(r) \/ deletePortfolio_delete(r)
    \/ createUser(r) \/ createUser_insertUser(r) \/ createUser_insertPortfolio(r)
    \/ saveAllSnapshots(r) \/ saveAllSnapshots_users(r) \/ saveAllSnapshots_bind(r)
    \/ saveAllSnapshots_save(r)
SpecRace == InitRace /\ [][NextRace]_vars

\* the snapshot writers and one handler that changes what they compute, one
\* request at a time, over several calendar days
InitSnapshot ==
  /\ Deployed /\ slots = 1 /\ budget = MaxSnapshotRequests /\ days = MaxDate
  /\ maxIds = [investments |-> MaxInvestmentId, distributions |-> MaxDistributionId]
  /\ kinds = {IdleReq.stock}

NextSnapshot ==
  \E r \in Reqs :
  \/ setSessionUser(r) \/ initializeSchema(r) \/ Respond(r)
  \/ Commit(r) \/ Rollback(r)
  \/ createInvestment(r) \/ createInvestment_begin(r) \/ createInvestment_insert(r)
  \/ insertInvestmentCategory(r) \/ insertInvestmentTag(r)
  \/ savePortfolioSnapshot(r) \/ savePortfolioSnapshot_save(r)
  \/ saveUserSnapshot(r) \/ saveUserSnapshot_save(r)
  \/ saveAllSnapshots(r) \/ saveAllSnapshots_users(r) \/ saveAllSnapshots_bind(r)
  \/ saveAllSnapshots_save(r)

SpecSnapshot == InitSnapshot /\ [][NextSnapshot]_vars


\* initializeSchema on its own: either version of the file, a database that is
\* empty or of the schema before portfolios, statements that may fail once,
\* users created and the process restarted in between
Bootable ==
  /\ mode \in Modes
  /\ devUserId = ""
  /\ secured = FALSE
  /\ rls = FALSE
  /\ db = EmptyTables
  /\ seq = [users |-> 1, portfolios |-> 1, investments |-> 1, distributions |-> 1]
  /\ sessionUser = NoUser
  /\ tx = "idle"
  /\ txSaved = EmptyTables
  /\ schemaInitialized = FALSE
  /\ req = [r \in Reqs |-> IdleReq]
  /\ days = 1
  /\ build \in {"current", "legacy"}
  /\ pg \in {EmptyDatabase} \cup (IF build = "legacy" THEN {PrePortfolioDatabase} ELSE {})
  /\ pgAtCall = [p \in Reqs |-> pg]
  /\ boot = [p \in Reqs |-> BootIdle]
  /\ maxIds = [investments |-> MaxInvestmentId, distributions |-> MaxDistributionId]
  /\ kinds = {IdleReq.stock}

\* one caller at a time
InitSchema == Bootable /\ slots = 1 /\ budget = MaxSchemaRequests /\ faults \in 0..MaxFaults
\* two callers that overlap at every await, no injected failure
InitSchemaRace == Bootable /\ slots = MaxSlots /\ budget = MaxRaceRequests /\ faults = 0

NextSchema ==
  \/ \E p \in Reqs :
       \/ initializeSchema_call(p)
       \/ initializeSchema_portfoliosExist(p) \/ initializeSchema_investmentsExist(p)
       \/ createFreshSchema(p) \/ performPortfolioMigration(p)
       \/ initializeSchema_return(p)
  \/ \E e \in {"john@example.com", "new@example.com"} : createUser_statements(e)
  \/ Restart

SpecSchema == InitSchema /\ [][NextSchema]_vars
SpecSchemaRace == InitSchemaRace /\ [][NextSchema]_vars

\* the price refresh on its own, n requests at a time, on a database where
\* each user holds two stocks whose price is out of date; user 1 also holds one
\* priced today and user 2 an investment that is not a stock
InitStock(n) ==
  /\ mode \in Modes
  /\ devUserId \in DevUserIdValues
  /\ secured \in BOOLEAN
  /\ rls \in BOOLEAN
  /\ rls => secured
  /\ db = [SeedTables EXCEPT !.investments =
             LET Stock(id, p, sym, price, at) ==
                   [Investment(id, p, 10) EXCEPT
                      !.investment_type = "stock", !.stock_symbol = sym,
                      !.current_stock_price = price, !.stock_price_updated_at = at]
             IN {Stock(1, 1, "AAPL", 0, 0), Stock(2, 1, "MSFT", 10, 1),
                 Stock(3, 1, "IBM", 10, MaxDate),
                 Stock(4, 2, "AAPL", 0, 0), Stock(5, 2, "MSFT", 10, 1),
                 Investment(6, 2, 20)}]
  /\ seq = [users |-> 3, portfolios |-> 3, investments |-> 7, distributions |-> 1]
  /\ sessionUser = NoUser
  /\ tx = "idle"
  /\ txSaved = EmptyTables
  /\ schemaInitialized = FALSE
  /\ req = [r \in Reqs |-> IdleReq]
  /\ build = "current"
  /\ pg = SingleRun("current", EmptyDatabase)
  /\ pgAtCall = [p \in Reqs |-> pg]
  /\ boot = [p \in Reqs |-> BootIdle]
  /\ faults = 0
  /\ slots = n
  /\ budget = (IF n = 1 THEN MaxStockRequests ELSE MaxRaceRequests)
  /\ days = MaxDate
  /\ maxIds = [investments |-> MaxInvestmentId, distributions |-> MaxDistributionId]
  /\ kinds = {IdleReq.stock}

NextStock ==
  \E r \in Reqs :
    \/ setSessionUser(r) \/ initializeSchema(r) \/ Respond(r)
    \/ updateUserStockPrices(r) \/ updateUserStockPrices_select(r)
    \/ getStockQuote(r) \/ updateUserStockPrices_update(r)

SpecStock == InitStock(1) /\ [][NextStock]_vars
\* two refreshes that overlap at every await (the effect of the portfolio list
\* fires one without waiting for the last)
SpecStockRace == InitStock(MaxSlots) /\ [][NextStock]_vars

\* the handlers that store amounts and the ones that report them, one request
\* at a time; createInvestment payloads are of type 'manual', or of type
\* 'stock' with symbol, quantity and price
InitValue ==
  /\ Deployed /\ slots = 1 /\ budget = MaxValueRequests /\ days = 1
  /\ maxIds = [investments |-> MaxValueInvestmentId,
               distributions |-> MaxValueDistributionId]
  /\ kinds = {IdleReq.stock,
              [investment_type |-> "stock", stock_symbol |-> "AAPL",
               stock_quantity |-> 2, current_stock_price |-> 15]}

NextValue ==
  \E r \in Reqs :
    \/ setSessionUser(r) \/ initializeSchema(r) \/ Respond(r)
    \/ Commit(r) \/ Rollback(r)
    \/ createPortfolio(r) \/ createPortfolio_insert(r)
    \/ createInvestment(r) \/ createInvestment_begin(r) \/ createInvestment_insert(r)
    \/ insertInvestmentCategory(r) \/ insertInvestmentTag(r)
    \/ createDistribution(r) \/ createDistribution_insert(r)
    \/ getPortfolios(r) \/ getPortfolios_select(r)
    \/ getPortfolioWithInvestments(r) \/ getPortfolioWithInvestments_portfolio(r)
    \/ getPortfolioWithInvestments_investments(r)

SpecValue == InitValue /\ [][NextValue]_vars

\* ------------------------------------------------------------------ claims
\* requests of the handlers that resolve the caller's identity
Authenticated(q) == q.op \notin {"", "createUser", "saveAllSnapshots"}
\* owners of the rows a request returned or changed
Touched(q) == q.seen \cup q.wrote

\* C1: tenant isolation. A finished call of a request bound to U has changed no
\* row owned by another identity, and a successful one has returned none.
TenantIsolation ==
  \A r \in Reqs :
    (req[r].pc = "done" /\ Authenticated(req[r])) =>
      /\ req[r].wrote \subseteq {req[r].userId}
      /\ (req[r].outcome = Ok => req[r].seen \subseteq {req[r].userId})

BoundBeforeTenantStatement == \A r \in Reqs : ~req[r].unbound

\* C4: every tenant-scoped statement of a request runs with that request's own
\* identity in effect on the client; a request that binds nothing (createUser)
\* never runs a statement under a binding left by another request.
StatementUnderOwnBinding ==
  \A r \in Reqs :
    /\ Authenticated(req[r]) => req[r].stmtAs \subseteq {req[r].userId}
    /\ req[r].op = "createUser" => req[r].stmtAs \subseteq {NoUser}

\* C5: with the row-visibility policies switched off, the application-level
\* filters alone keep every read, update and delete inside the caller's rows.
AppFilterIsolation ==
  ~rls =>
    \A r \in Reqs :
      (req[r].pc = "done" /\ req[r].outcome = Ok /\ Authenticated(req[r])) =>
        Touched(req[r]) \subseteq {req[r].userId}

\* C6: two successful requests of the same handler by the same identity, which
\* differ only in their payload, touch rows of one and the same tenant.
PayloadDoesNotSelectTenant ==
  \A r1 \in Reqs, r2 \in Reqs :
    ( /\ req[r1].pc = "done" /\ req[r2].pc = "done"
      /\ req[r1].outcome = Ok /\ req[r2].outcome = Ok
      /\ Authenticated(req[r1])
      /\ req[r1].op = req[r2].op
      /\ req[r1].userId = req[r2].userId ) =>
        Cardinality(Touched(req[r1]) \cup Touched(req[r2])) <= 1

\* the operations of C7 and C8 that take a portfolio id / an investment id
\* the outcome of each when no entity has the id
WhenMissing(o) ==
  CASE o \in {"getPortfolioWithInvestments", "deletePortfolio"} -> ErrPortfolioNotFound
    [] o = "updatePortfolio" -> ErrPortfolioUpdate
    [] o = "getInvestmentWithDetails" -> ErrInvestmentNotFound
    [] o = "updateInvestment" -> ErrInvestmentUpdatePermission
    [] o = "deleteInvestment" ->
         IF secured THEN ErrInvestmentDeletePermission ELSE ErrStorage
\* owner of the entity the request named, when the request arrived
EntityOwner(q) ==
  IF q.op \in {"getPortfolioWithInvestments", "updatePortfolio", "deletePortfolio"} THEN PortfolioOwner(q.pre, q.pid)
  ELSE InvestmentOwner(q.pre, q.iid)

\* C7: an operation on an id whose entity belongs to another identity ends as
\* it does when no entity has that id.
ForeignLooksMissing ==
  \A r \in Reqs :
    ( /\ req[r].pc = "done"
      /\ req[r].op \in {"getPortfolioWithInvestments", "updatePortfolio", "deletePortfolio",
                      "getInvestmentWithDetails", "updateInvestment", "deleteInvestment"}
      /\ req[r].userId # NoUser
      /\ EntityOwner(req[r]) # req[r].userId ) =>
        req[r].outcome = WhenMissing(req[r].op)

DeletePortfolioKeepsInvestments ==
  [][ (\E r \in Reqs : req[r].pc = "dp_delete" /\ req'[r].pc = "done")
        => db'.investments = db.investments ]_vars

\* C10: outside a transaction no association joins an investment with a category
\* or tag of another owner.
NoCrossTenantAssociation ==
  tx = "idle" =>
    /\ \A a \in db.investment_categories :
         InvestmentOwner(db, a.investment_id) = LabelOwner(db.categories, a.label_id)
    /\ \A a \in db.investment_tags :
         InvestmentOwner(db, a.investment_id) = LabelOwner(db.tags, a.label_id)

\* C11: a transactional handler that has thrown has left nothing behind: the
\* investment row it inserted is gone, and when no other request ran meanwhile
\* the tables are those of its start.
FailedOperationLeavesNoTrace ==
  \A r \in Reqs :
    LET q == req[r]
    IN ( /\ q.pc = "done"
         /\ q.op \in {"createInvestment", "updateInvestment",
                     "updateInvestmentByPortfolio", "deleteInvestment"}
         /\ q.outcome # Ok
         /\ q.userId # NoUser
         /\ tx = "idle" ) =>
           /\ (q.op = "createInvestment" => \A i \in db.investments : i.id # q.iid)
           /\ (slots = 1 => db = q.pre)

\* the snapshot rows stored for one key
PortfolioSnapshotRows(d, pid, date) ==
  {x \in d.portfolio_daily_snapshots : x.portfolio_id = pid /\ x.snapshot_date = date}
UserSnapshotRows(d, u, date) ==
  {x \in d.user_daily_snapshots : x.user_id = u /\ x.snapshot_date = date}

\* C12: a snapshot save that succeeded leaves exactly one row for its
\* (owner, date), holding the values computed by this save, whatever row the key
\* had before; no key ever has two rows.
SnapshotSaveIsUpsert ==
  /\ \A x, y \in db.portfolio_daily_snapshots :
       (x.portfolio_id = y.portfolio_id /\ x.snapshot_date = y.snapshot_date) => x = y
  /\ \A x, y \in db.user_daily_snapshots :
       (x.user_id = y.user_id /\ x.snapshot_date = y.snapshot_date) => x = y
  /\ \A r \in Reqs :
       LET q == req[r]
       IN /\ (q.pc = "done" /\ q.op = "savePortfolioSnapshot" /\ q.outcome = Ok) =>
               PortfolioSnapshotRows(db, q.pid, q.date) =
                 {[portfolio_id |-> q.pid, snapshot_date |-> q.date,
                   v |-> compute_portfolio_snapshot(db, sessionUser, q.pid)]}
          /\ (q.pc = "done" /\ q.op = "saveUserSnapshot" /\ q.outcome = Ok) =>
               UserSnapshotRows(db, q.userId, q.date) =
                 {[user_id |-> q.userId, snapshot_date |-> q.date,
                   v |-> compute_user_snapshot(db, sessionUser, q.userId)]}

\* a second save for a key whose stored values differed from the new ones
SnapshotSavedAgain ==
  \E r \in Reqs :
    LET q == req[r]
    IN /\ q.pc = "done" /\ q.op = "savePortfolioSnapshot" /\ q.outcome = Ok
       /\ \E x \in PortfolioSnapshotRows(q.pre, q.pid, q.date) :
            x.v # compute_portfolio_snapshot(db, sessionUser, q.pid)

\* C13: a stored snapshot of a day that is followed by a stored snapshot of a
\* later day for the same owner is not changed by any step of
\* savePortfolioSnapshot, saveUserSnapshot or saveAllSnapshots.
PastSnapshotsImmutable ==
  [][ /\ \A pid \in PortfolioIds, D \in Dates :
           ( /\ PortfolioSnapshotRows(db, pid, D) # {}
             /\ \E x \in db.portfolio_daily_snapshots :
                  x.portfolio_id = pid /\ x.snapshot_date > D ) =>
               PortfolioSnapshotRows(db', pid, D) = PortfolioSnapshotRows(db, pid, D)
      /\ \A u \in db.users, D \in Dates :
           ( /\ UserSnapshotRows(db, u, D) # {}
             /\ \E x \in db.user_daily_snapshots :
                  x.user_id = u /\ x.snapshot_date > D ) =>
               UserSnapshotRows(db', u, D) = UserSnapshotRows(db, u, D) ]_vars

\* C14: with NODE_ENV = production no call of initializeSchema issues a
\* statement, and every call reports success.
ProductionIssuesNoSchemaStatement ==
  mode = "production" =>
    \A p \in Reqs :
      /\ boot[p].issued = 0
      /\ boot[p].pc = "done" => boot[p].result = "success"

\* C15: a call of initializeSchema made after one has succeeded in the same
\* process reports success, has issued no statement and has left the database
\* as it found it.
LaterCallsIssueNothing ==
  \A p \in Reqs :
    (boot[p].pc = "done" /\ boot[p].flagAtCall) =>
      /\ boot[p].result = "success"
      /\ boot[p].issued = 0
      /\ pg = pgAtCall[p]

\* a call that found the flag set, on a database that holds tables
LaterCallReturned ==
  \E p \in Reqs :
    /\ boot[p].pc = "done"
    /\ boot[p].flagAtCall
    /\ pg.tables # {}

\* C16: no step of initializeSchema removes a table or a row, changes a stored
\* row otherwise than by filling an empty portfolio_id, or sets a sequence back.
InitializationPreservesData ==
  [][ boot' # boot =>
        /\ pg.tables \subseteq pg'.tables
        /\ pg.users \subseteq pg'.users
        /\ pg.portfolios \subseteq pg'.portfolios
        /\ pg.distributions \subseteq pg'.distributions
        /\ \A i \in pg.investments :
             \E j \in pg'.investments :
               /\ j.id = i.id
               /\ j.user_id = i.user_id
               /\ i.portfolio_id # 0 => j.portfolio_id = i.portfolio_id
        /\ pg'.users_id_seq >= pg.users_id_seq
        /\ pg'.portfolios_id_seq >= pg.portfolios_id_seq ]_vars

\* C17: a call of initializeSchema that failed has left the flag false, and a
\* call made after a failed one, during which no statement fails for an outside
\* reason, succeeds.
FailedInitializationIsRetried ==
  \A p \in Reqs :
    LET b == boot[p]
    IN /\ (b.pc = "done" /\ b.result = "error") => ~schemaInitialized
       /\ (b.pc = "done" /\ b.retry /\ ~b.faulted) => b.result = "success"

\* C18: of callers that overlap in initializeSchema none fails, the flag is set
\* when one has finished, and when the last has finished the tables and rows
\* are those of one run alone.
ConcurrentInitializationSafe ==
  \A p \in Reqs :
    LET b == boot[p]
        Contents(g) == [g EXCEPT !.users_id_seq = 0, !.portfolios_id_seq = 0]
    IN (b.pc = "done" /\ b.issued > 0) =>
         /\ b.result = "success"
         /\ schemaInitialized
         /\ (\A o \in Reqs : boot[o].pc \in {"idle", "done"}) =>
              Contents(pg) = Contents(SingleRun(build, pgAtCall[p]))

ProviderFailureIsContained ==
  \A r \in Reqs :
    LET q == req[r]
    IN /\ (q.op = "updateUserStockPrices" /\ q.failed # {}) =>
            /\ q.pc = "done" => q.outcome = Ok
            /\ Len(q.errors) = Cardinality(q.failed)
            /\ \A id \in q.failed :
                 \E i \in db.investments : i.id = id /\ i \in q.pre.investments
       /\ (q.op = "updateUserStockPrices" /\ q.pc = "done" /\ q.outcome = Ok) =>
            q.saved + Len(q.errors) <= Len(q.list)

\* a refresh that has returned after one quote arrived and another failed
RefreshReturnedWithError ==
  \E r \in Reqs :
    /\ req[r].op = "updateUserStockPrices" /\ req[r].pc = "done"
    /\ req[r].failed # {} /\ req[r].saved > 0
    /\ db # req[r].pre

\* C21: within one run of updateUserStockPrices, once the provider has
\* signalled its rate limit in answer to a quote request, the run issues no
\* further quote request.
RateLimitEndsQuoteRequests ==
  \A r \in Reqs : req[r].op = "updateUserStockPrices" => ~req[r].late

\* C22: in every deployment mode other than production a handler resolves the
\* identity to VITE_DEV_USER_ID parsed as an integer when that is set, and to
\* the default identity 1 when it is not.
NonProductionIdentityResolved ==
  \A r \in Reqs :
    (Authenticated(req[r]) /\ mode # "production") =>
      /\ req[r].userId = (IF devUserId # "" THEN parseInt(devUserId) ELSE 1)
      /\ req[r].outcome # ErrAuth

\* C23: in every reachable storage state no investment and no distribution has
\* a negative amount, and a createInvestment, updateInvestment or
\* createDistribution called with a negative amount fails and leaves storage
\* as it was.
AmountsNonNegative ==
  /\ \A i \in db.investments : i.amount >= 0
  /\ \A x \in db.distributions : x.amount >= 0
  /\ \A r \in Reqs :
       (/\ req[r].op \in {"createInvestment", "updateInvestment", "createDistribution"}
        /\ req[r].amount < 0
        /\ req[r].pc = "done") =>
         (req[r].outcome # Ok /\ db = req[r].pre)

\* C24: getPortfolios reports for each portfolio of the caller the number of
\* its investments, the sum of their amounts and the sum of their
\* distributions, and getPortfolioWithInvestments reports for each investment
\* a current_return of its distributions minus its amount.
PortfolioTotalsArePrincipal ==
  \A r \in Reqs :
    LET q == req[r]
        inv(pid) == {i \in db.investments : i.portfolio_id = pid}
        dis(S) == {x \in db.distributions : \E i \in S : i.id = x.investment_id}
    IN /\ (q.op = "getPortfolios" /\ q.pc = "done" /\ q.outcome = Ok) =>
            /\ {p.id : p \in q.result} =
                 {p.id : p \in {x \in db.portfolios : x.user_id = q.userId}}
            /\ \A p \in q.result :
                 /\ p.investment_count = Cardinality(inv(p.id))
                 /\ p.total_invested = SumAmount(inv(p.id))
                 /\ p.total_distributions = SumAmount(dis(inv(p.id)))
       /\ (q.op = "getPortfolioWithInvestments" /\ q.pc = "done" /\ q.outcome = Ok) =>
            \A x \in q.result :
              \E i \in db.investments :
                /\ i.id = x.id
                /\ x.total_distributions = SumAmount(dis({i}))
                /\ x.current_return = x.total_distributions - i.amount

\* C25: a saveAllSnapshots for a date in which the save of every user succeeded
\* leaves exactly one snapshot row of that date for every user and for every
\* portfolio.
BatchSnapshotCoversOwners ==
  \A r \in Reqs :
    LET q == req[r]
    IN (/\ q.op = "saveAllSnapshots" /\ q.pc = "done" /\ q.outcome = Ok
        /\ q.saved = Cardinality(db.users)) =>
         /\ \A u \in db.users : Cardinality(UserSnapshotRows(db, u, q.date)) = 1
         /\ \A p \in db.portfolios :
              Cardinality(PortfolioSnapshotRows(db, p.id, q.date)) = 1

\* C26: whatever initializations, restarts and createUser calls came before,
\* the id the sequence gives a createUser is 10 or more and is the id of no
\* user that exists, so the INSERT never meets an id that is taken.
CreateUserIdsAreFresh ==
  [][(budget' = budget - 1 /\ boot' = boot) =>
       /\ pg.users_id_seq >= MockUserSeq
       /\ \A u \in pg.users : u.id # pg.users_id_seq]_vars

\* C27: a run of updateUserStockPrices requests at most one quote for an
\* investment, requests quotes only for stock investments of the caller whose
\* price is older than 24 hours, and no run requests a quote for an investment
\* whose price was refreshed within the last 24 hours.
QuoteRequestsAreDue ==
  \A r \in Reqs :
    LET q == req[r]
    IN q.op = "updateUserStockPrices" =>
         /\ \A a, b \in 1..Len(q.quotes) : a # b => q.quotes[a] # q.quotes[b]
         /\ \A a \in 1..Len(q.quotes) :
              \E i \in q.pre.investments :
                /\ i.id = q.quotes[a]
                /\ InvestmentOwner(q.pre, i.id) = q.userId
                /\ i.investment_type = "stock"
                /\ i.stock_price_updated_at < days
         /\ ~q.fresh

\* C29: once createUser has returned or failed, the user row it inserted and
\* that user's default portfolio 'My Portfolio' exist both or neither.
CreateUserIsAllOrNothing ==
  \A r \in Reqs :
    LET q == req[r]
    IN (q.op = "createUser" /\ q.pc = "done" /\ q.userId # NoUser) =>
         (q.userId \in db.users <=>
            \E p \in db.portfolios : p.user_id = q.userId /\ p.name = "My Portfolio")

\* C30: a saveAllSnapshots whose loop met a failure for some user still went
\* through every user, returns normally, and its users_saved is the number of
\* users whose save succeeded.
BatchSurvivesFailedSave ==
  \A r \in Reqs :
    LET q == req[r]
    IN (q.op = "saveAllSnapshots" /\ Len(q.list) > 0) =>
         /\ q.saved = Cardinality(q.wrote)
         /\ q.wrote \subseteq SeqToSet(q.list)
         /\ q.pc = "done" => /\ q.outcome = Ok
                             /\ q.idx = Len(q.list)

\* a batch that has returned after the save failed for one user and succeeded
\* for a later one
BatchReturnedAfterFailedSave ==
  \E r \in Reqs :
    /\ req[r].op = "saveAllSnapshots" /\ req[r].pc = "done" /\ req[r].outcome = Ok
    /\ \E a, b \in 1..Len(req[r].list) :
         /\ a < b
         /\ req[r].list[a] \notin req[r].wrote
         /\ req[r].list[b] \in req[r].wrote

\* C28: on a database that has the snapshot functions, the value getPortfolios
\* reports for a portfolio of the caller is the total_value
\* compute_portfolio_snapshot computes for it on the same storage state, and
\* the values of the caller's portfolios add up to the total_value of
\* compute_user_snapshot.
ReportedValueIsSnapshotValue ==
  \A r \in Reqs :
    LET q == req[r]
    IN (secured /\ q.op = "getPortfolios" /\ q.pc = "done" /\ q.outcome = Ok) =>
         /\ \A p \in q.result :
              p.total_invested = compute_portfolio_snapshot(db, q.userId, p.id).total_value
         /\ SumValue({i \in db.investments :
                        \E p \in q.result : p.id = i.portfolio_id}, "stock")
              = compute_user_snapshot(db, q.userId, q.userId).total_value

====
